---- MODULE Spec2Model ----
(***************************************************************************)
(* DramRowOpenScheduler (inc/dram_prefetches_scheduler): the queue of      *)
(* speculative row-open requests, grouped by ready cycle and by DRAM row,  *)
(* with its per-tick pruning and issue policy and its statistics.          *)
(*                                                                         *)
(* Scores are floats in the source; here they are exact rationals          *)
(* [num, den], compared by cross-multiplication.                           *)
(***************************************************************************)
EXTENDS Integers, Sequences, FiniteSets, TLC

---------------------------------------------------------------------------
(* Bounds of the model *)

MaxCapacity == 2
MaxSlack == 1
MaxNow == 1
MaxIssue == 2
MaxCount == 3
MaxRows == 4

\* 0 and 1 share a cache block; 512 is another block (column) of the same
\* row; 128 lies on another bank.
Addrs == {0, 1, 128, 512}

---------------------------------------------------------------------------
(* Configuration and address mapping *)

DENSITY_WEIGHT == [num |-> 6, den |-> 10]
CONFIDENCE_WEIGHT == [num |-> 4, den |-> 10]
MAX_CONFIDENCE == 16
ROW_BUFFER_SIZE == 128

\* Bit fields of an address, lowest first: [lo, width].
address_slicer ==
  [offset  |-> <<0, 6>>,
   channel |-> <<6, 1>>,
   bank    |-> <<7, 2>>,
   column  |-> <<9, 1>>,
   rank    |-> <<10, 1>>,
   row     |-> <<11, 1>>]

Slice(addr, field) ==
  (addr \div (2 ^ address_slicer[field][1])) % (2 ^ address_slicer[field][2])

block_number(addr) == addr \div (2 ^ address_slicer.offset[2])

DramCoordinates(addr) ==
  [channel |-> Slice(addr, "channel"),
   rank    |-> Slice(addr, "rank"),
   bank    |-> Slice(addr, "bank"),
   row     |-> Slice(addr, "row")]

\* DramCoordinates::operator<
CoordLess(a, b) ==
  IF a.channel # b.channel THEN a.channel < b.channel
  ELSE IF a.rank # b.rank THEN a.rank < b.rank
  ELSE IF a.bank # b.bank THEN a.bank < b.bank
  ELSE a.row < b.row

\* Equality by full address instead of by block.
BlockEqual_ByAddress(a, b) == a.addr = b.addr

\* DramRowOpenRequest::operator==
BlockEqual(a, b) == block_number(a.addr) = block_number(b.addr)

DramRowOpenRequest(a, c, m) == [addr |-> a, confidence |-> c, metadata |-> m]

\* The requests the prefetcher submits: block-equal ones of lower, equal and
\* higher confidence with other metadata, a second block of the same row and
\* a row on another bank that outscores a low-confidence row.
Requests ==
  {DramRowOpenRequest(0, 3, 0), DramRowOpenRequest(1, 3, 1),
   DramRowOpenRequest(1, 10, 1), DramRowOpenRequest(512, 10, 0),
   DramRowOpenRequest(128, 10, 0)}

CoordsUniverse == {DramCoordinates(a) : a \in Addrs}

---------------------------------------------------------------------------
(* Generic helpers *)

Min(a, b) == IF a < b THEN a ELSE b

RECURSIVE SumSeq(_)
SumSeq(s) == IF s = <<>> THEN 0 ELSE Head(s) + SumSeq(Tail(s))

RECURSIVE SumOver(_, _)
SumOver(f, S) ==
  IF S = {} THEN 0
  ELSE LET x == CHOOSE y \in S : TRUE IN f[x] + SumOver(f, S \ {x})

\* The map f with key k bound to v / with the keys of K erased.
Put(f, k, v) == [x \in (DOMAIN f) \cup {k} |-> IF x = k THEN v ELSE f[x]]
Erase(f, K) == [x \in (DOMAIN f) \ K |-> f[x]]

\* The cycles latest first.
RECURSIVE CyclesAscending_Reversed(_)
CyclesAscending_Reversed(S) ==
  IF S = {} THEN <<>>
  ELSE LET m == CHOOSE x \in S : \A y \in S : x >= y
       IN <<m>> \o CyclesAscending_Reversed(S \ {m})

\* Ascending sequence of a set of cycles (std::map<cycle_t, ...> iteration).
RECURSIVE CyclesAscending(_)
CyclesAscending(S) ==
  IF S = {} THEN <<>>
  ELSE LET m == CHOOSE x \in S : \A y \in S : x <= y
       IN <<m>> \o CyclesAscending(S \ {m})

\* Ascending sequence of a set of coordinates (std::map<DramCoordinates, ...>).
RECURSIVE CoordsAscending(_)
CoordsAscending(S) ==
  IF S = {} THEN <<>>
  ELSE LET m == CHOOSE x \in S : \A y \in S \ {x} : CoordLess(x, y)
       IN <<m>> \o CoordsAscending(S \ {m})

---------------------------------------------------------------------------
(* State *)

VARIABLES
  max_queue_size,  \* capacity, fixed at construction
  time_slack,      \* slack cycles, fixed at construction
  ready_groups,    \* ready cycle -> (coordinates -> DramRow)
  m_stats,         \* SchedulerStats
  clock,           \* the host's cycle: the last `now` it passed in
  last,            \* the operation that just completed, as its caller saw it
  dramRows_,       \* DramRequestScheduler: the rows, in insertion order
  busyBanks_,      \* DramRequestScheduler: banks issued to, with their ready cycle
  scheduler_stats, \* DramRequestScheduler: its counters (the member stats)
  low_confidence_buffer,  \* Berti: the delayed low-confidence prefetches
  berti_counters,  \* Berti: late_removed, throttled_prefetches, dram_prefetch_issued
  buckets          \* PowerOfTwoHistogram: index -> HistogramBucket

vars ==
  <<max_queue_size, time_slack, ready_groups, m_stats, clock, last,
    dramRows_, busyBanks_, scheduler_stats, low_confidence_buffer, berti_counters,
    buckets>>

\* The state of the components other than DramRowOpenScheduler.
siblings ==
  <<dramRows_, busyBanks_, scheduler_stats, low_confidence_buffer, berti_counters, buckets>>

ZeroStats ==
  [REQUESTS_ADDED |-> 0, DUPLICATES_DETECTED |-> 0, CONFIDENCE_UPDATES |-> 0,
   DROPPED_FULL_QUEUE |-> 0, PRUNED_EXPIRED |-> 0, ISSUED_SUCCESS |-> 0,
   ISSUE_FAILURES |-> 0, TOTAL_DELAY_CYCLES |-> 0]

StatNames == DOMAIN ZeroStats

\* The counters count at most MaxCount events between two resets.
WithinCount(stats) == SumOver(stats, StatNames) <= MaxCount

NoCalls == <<>>

\* What the caller of an operation saw: the operation and its arguments
\* (req and ready_cycle = now + delay for add_request, max_issue for tick),
\* size() before it, its return value, the try_issue calls it made in order
\* and the number of requests it pruned.
NoRequest == [addr |-> 0, confidence |-> 0, metadata |-> 0]

Observed(op, req, ready_cycle, budget, before, ret, calls, pruned) ==
  [op |-> op, req |-> req, ready_cycle |-> ready_cycle, max_issue |-> budget,
   size_before |-> before, ret |-> ret, calls |-> calls, pruned |-> pruned]

Plain(op, before) == Observed(op, NoRequest, 0, 0, before, FALSE, NoCalls, 0)

---------------------------------------------------------------------------
(* Rationals for the priority score *)

RECURSIVE GCD(_, _)
GCD(a, b) == IF b = 0 THEN a ELSE GCD(b, a % b)

Rat(n, d) == LET g == GCD(n, d) IN [num |-> n \div g, den |-> d \div g]

RatAdd(a, b) == Rat(a.num * b.den + b.num * a.den, a.den * b.den)
RatMul(a, b) == Rat(a.num * b.num, a.den * b.den)
RatLess(a, b) == a.num * b.den < b.num * a.den

---------------------------------------------------------------------------
(* DramRow *)

Confidences(reqs) == [i \in 1..Len(reqs) |-> reqs[i].confidence]

\* DramRow::calculate_score
calculate_score(reqs) ==
  LET n == Len(reqs)
      density == Rat(Min(n, ROW_BUFFER_SIZE), ROW_BUFFER_SIZE)
      avg_confidence ==
        IF n = 0 THEN Rat(0, 1)
        ELSE Rat(SumSeq(Confidences(reqs)), n * MAX_CONFIDENCE)
  IN RatAdd(RatMul(DENSITY_WEIGHT, density),
            RatMul(CONFIDENCE_WEIGHT, avg_confidence))

\* Index of the first stored request block-equal to req, 0 if none.
FindDuplicate(reqs, req) ==
  IF \E i \in 1..Len(reqs) : BlockEqual(reqs[i], req)
  THEN CHOOSE i \in 1..Len(reqs) :
         /\ BlockEqual(reqs[i], req)
         /\ \A j \in 1..(i - 1) : ~BlockEqual(reqs[j], req)
  ELSE 0

\* The upgrade without the comparison: the latest duplicate always wins.
Upgrade_Always(existing, req) ==
  [existing EXCEPT !.confidence = req.confidence, !.metadata = req.metadata]

\* The upgrade with >= for >.
Upgrade_OnEqual(existing, req) ==
  IF req.confidence >= existing.confidence
  THEN [existing EXCEPT !.confidence = req.confidence, !.metadata = req.metadata]
  ELSE existing

\* The stored request after a block-equal duplicate arrived.
Upgrade(existing, req) ==
  IF req.confidence > existing.confidence
  THEN [existing EXCEPT !.confidence = req.confidence, !.metadata = req.metadata]
  ELSE existing

\* DramRow::add_prefetch: the requests afterwards and whether req was new.
DramRow_add_prefetch(reqs, req) ==
  LET i == FindDuplicate(reqs, req)
  IN IF i # 0
     THEN [requests |-> [reqs EXCEPT ![i] = Upgrade(reqs[i], req)], is_new |-> FALSE]
     ELSE [requests |-> Append(reqs, req), is_new |-> TRUE]

DramRow(reqs) == [prefetch_requests |-> reqs, priority_score |-> calculate_score(reqs)]

\* The last element of maximal confidence instead of the first.
get_highest_confidence_prefetch_Last(reqs) ==
  LET i == CHOOSE k \in 1..Len(reqs) :
             /\ \A j \in 1..Len(reqs) : reqs[j].confidence <= reqs[k].confidence
             /\ \A j \in (k + 1)..Len(reqs) : reqs[j].confidence < reqs[k].confidence
  IN reqs[i]

\* DramRow::get_highest_confidence_prefetch: std::max_element returns the
\* first element of maximal confidence.
get_highest_confidence_prefetch(reqs) ==
  LET i == CHOOSE k \in 1..Len(reqs) :
             /\ \A j \in 1..Len(reqs) : reqs[j].confidence <= reqs[k].confidence
             /\ \A j \in 1..(k - 1) : reqs[j].confidence < reqs[k].confidence
  IN reqs[i]

---------------------------------------------------------------------------
(* ReadyGroup *)

EmptyGroup == <<>>

\* ReadyGroup::size
GroupSize(group) ==
  SumOver([c \in DOMAIN group |-> Len(group[c].prefetch_requests)], DOMAIN group)

\* A coalesced duplicate counted as an added request.
CountAdd_AsAdded(stats, is_new) == [stats EXCEPT !.REQUESTS_ADDED = @ + 1]

\* Statistics after ReadyGroup::add_prefetch.
CountAdd(stats, is_new) ==
  IF is_new
  THEN [stats EXCEPT !.REQUESTS_ADDED = @ + 1]
  ELSE [stats EXCEPT !.DUPLICATES_DETECTED = @ + 1]

\* ReadyGroup::add_prefetch without the score update after a duplicate.
ReadyGroup_add_prefetch_StaleScore(group, req, stats) ==
  LET coords == DramCoordinates(req.addr)
  IN IF coords \in DOMAIN group
     THEN LET r == DramRow_add_prefetch(group[coords].prefetch_requests, req)
          IN [group |-> Put(group, coords,
                            IF r.is_new THEN DramRow(r.requests)
                            ELSE [prefetch_requests |-> r.requests,
                                  priority_score |-> group[coords].priority_score]),
              stats |-> CountAdd(stats, r.is_new),
              is_new |-> r.is_new]
     ELSE [group |-> Put(group, coords, DramRow(<<req>>)),
           stats |-> [stats EXCEPT !.REQUESTS_ADDED = @ + 1],
           is_new |-> TRUE]

\* ReadyGroup::add_prefetch
ReadyGroup_add_prefetch(group, req, stats) ==
  LET coords == DramCoordinates(req.addr)
  IN IF coords \in DOMAIN group
     THEN LET r == DramRow_add_prefetch(group[coords].prefetch_requests, req)
          IN [group |-> Put(group, coords, DramRow(r.requests)),
              stats |-> CountAdd(stats, r.is_new),
              is_new |-> r.is_new]
     ELSE [group |-> Put(group, coords, DramRow(<<req>>)),
           stats |-> [stats EXCEPT !.REQUESTS_ADDED = @ + 1],
           is_new |-> TRUE]

---------------------------------------------------------------------------
(* DramRowOpenScheduler: queue *)

\* DramRowOpenScheduler::total_prefetch_count
total_prefetch_count(groups) ==
  SumOver([t \in DOMAIN groups |-> GroupSize(groups[t])], DOMAIN groups)

size == total_prefetch_count(ready_groups)
capacity == max_queue_size

Init ==
  /\ max_queue_size \in 0..MaxCapacity
  /\ time_slack \in 0..MaxSlack
  /\ ready_groups = <<>>
  /\ m_stats = ZeroStats
  /\ clock = 0
  /\ last = Plain("new", 0)
  /\ dramRows_ = <<>> /\ busyBanks_ = <<>> /\ scheduler_stats = <<>>
  /\ low_confidence_buffer = <<>> /\ berti_counters = <<>> /\ buckets = <<>>

\* The capacity check with > for >=.
QueueFull_OffByOne(count, max_size) == count > max_size

\* The capacity check of add_request.
QueueFull(count, max_size) == count >= max_size

\* add_request that looks for a duplicate before it tests the capacity.
add_request_DuplicateFirst(req, now, delay) ==
  /\ clock' = now
  /\ UNCHANGED <<max_queue_size, time_slack>>
  /\ IF /\ QueueFull(total_prefetch_count(ready_groups), max_queue_size)
        /\ ~(/\ now + delay \in DOMAIN ready_groups
             /\ DramCoordinates(req.addr) \in DOMAIN ready_groups[now + delay]
             /\ FindDuplicate(ready_groups[now + delay][DramCoordinates(req.addr)].prefetch_requests, req) # 0)
     THEN /\ m_stats' = [m_stats EXCEPT !.DROPPED_FULL_QUEUE = @ + 1]
          /\ ready_groups' = ready_groups
          /\ last' = Observed("add_request", req, now + delay, 0, size, FALSE, NoCalls, 0)
     ELSE \E r \in {ReadyGroup_add_prefetch(
                      IF now + delay \in DOMAIN ready_groups
                      THEN ready_groups[now + delay]
                      ELSE EmptyGroup,
                      req, m_stats)} :
            /\ ready_groups' = Put(ready_groups, now + delay, r.group)
            /\ m_stats' = r.stats
            /\ last' = Observed("add_request", req, now + delay, 0, size, r.is_new,
                                 NoCalls, 0)
  /\ WithinCount(m_stats')

\* add_request that coalesces with a block-equal request of any ready group.
add_request_AcrossGroups(req, now, delay) ==
  /\ clock' = now
  /\ UNCHANGED <<max_queue_size, time_slack>>
  /\ IF QueueFull(total_prefetch_count(ready_groups), max_queue_size)
     THEN /\ m_stats' = [m_stats EXCEPT !.DROPPED_FULL_QUEUE = @ + 1]
          /\ ready_groups' = ready_groups
          /\ last' = Observed("add_request", req, now + delay, 0, size, FALSE, NoCalls, 0)
     ELSE IF \E t \in DOMAIN ready_groups \ {now + delay} :
               /\ DramCoordinates(req.addr) \in DOMAIN ready_groups[t]
               /\ FindDuplicate(ready_groups[t][DramCoordinates(req.addr)].prefetch_requests, req) # 0
     THEN /\ m_stats' = [m_stats EXCEPT !.DUPLICATES_DETECTED = @ + 1]
          /\ ready_groups' = ready_groups
          /\ last' = Observed("add_request", req, now + delay, 0, size, FALSE, NoCalls, 0)
     ELSE \E r \in {ReadyGroup_add_prefetch(
                      IF now + delay \in DOMAIN ready_groups
                      THEN ready_groups[now + delay]
                      ELSE EmptyGroup,
                      req, m_stats)} :
            /\ ready_groups' = Put(ready_groups, now + delay, r.group)
            /\ m_stats' = r.stats
            /\ last' = Observed("add_request", req, now + delay, 0, size, r.is_new,
                                 NoCalls, 0)
  /\ WithinCount(m_stats')

\* DramRowOpenScheduler::add_request
add_request(req, now, delay) ==
  /\ clock' = now
  /\ UNCHANGED <<max_queue_size, time_slack>>
  /\ IF QueueFull(total_prefetch_count(ready_groups), max_queue_size)
     THEN /\ m_stats' = [m_stats EXCEPT !.DROPPED_FULL_QUEUE = @ + 1]
          /\ ready_groups' = ready_groups
          /\ last' = Observed("add_request", req, now + delay, 0, size, FALSE, NoCalls, 0)
     ELSE \E r \in {ReadyGroup_add_prefetch(
                      IF now + delay \in DOMAIN ready_groups
                      THEN ready_groups[now + delay]
                      ELSE EmptyGroup,
                      req, m_stats)} :
            /\ ready_groups' = Put(ready_groups, now + delay, r.group)
            /\ m_stats' = r.stats
            /\ last' = Observed("add_request", req, now + delay, 0, size, r.is_new,
                                 NoCalls, 0)
  /\ WithinCount(m_stats')

\* clear that drops nothing.
clear_KeepsGroups ==
  /\ ready_groups' = ready_groups
  /\ last' = Plain("clear", size)
  /\ UNCHANGED <<max_queue_size, time_slack, m_stats, clock>>

\* DramRowOpenScheduler::clear
clear ==
  /\ ready_groups' = <<>>
  /\ last' = Plain("clear", size)
  /\ UNCHANGED <<max_queue_size, time_slack, m_stats, clock>>

\* reset that forgets one counter.
reset_stats_SkipsOne ==
  /\ m_stats' = [ZeroStats EXCEPT !.REQUESTS_ADDED = m_stats.REQUESTS_ADDED]
  /\ last' = Plain("reset_stats", size)
  /\ UNCHANGED <<max_queue_size, time_slack, ready_groups, clock>>

\* DramRowOpenScheduler::reset_stats
reset_stats ==
  /\ m_stats' = ZeroStats
  /\ last' = Plain("reset_stats", size)
  /\ UNCHANGED <<max_queue_size, time_slack, ready_groups, clock>>

---------------------------------------------------------------------------
(* DramUsageTracker *)

NoUsage == [channel_usage |-> <<>>, rank_usage |-> <<>>, bank_usage |-> <<>>]

Count(m, k) == IF k \in DOMAIN m THEN m[k] ELSE 0

\* The channel counter never read.
get_channel_usage_Zero(usage, channel) == 0

get_channel_usage(usage, channel) == Count(usage.channel_usage, channel)
get_rank_usage(usage, rank) == Count(usage.rank_usage, rank)
is_bank_in_use(usage, bank) == Count(usage.bank_usage, bank) > 0

record_usage(usage, coords) ==
  [channel_usage |-> Put(usage.channel_usage, coords.channel,
                         Count(usage.channel_usage, coords.channel) + 1),
   rank_usage    |-> Put(usage.rank_usage, coords.rank,
                         Count(usage.rank_usage, coords.rank) + 1),
   bank_usage    |-> Put(usage.bank_usage, coords.bank,
                         Count(usage.bank_usage, coords.bank) + 1)]

---------------------------------------------------------------------------
(* DramRowOpenScheduler: tick *)

\* The orders std::sort may leave equal-score candidates in: a ranking of
\* the coordinates that decides between candidates of equal score.
TieBreaks ==
  {f \in [CoordsUniverse -> 1..Cardinality(CoordsUniverse)] :
     \A a, b \in CoordsUniverse : a # b => f[a] # f[b]}

\* RowCandidate::operator< (higher score first), ties as the sort left them.
CandidateBefore(a, b, tie) ==
  \/ RatLess(b.score, a.score)
  \/ /\ ~RatLess(a.score, b.score)
     /\ tie[a.coords] < tie[b.coords]

RECURSIVE SortCandidates(_, _)
SortCandidates(S, tie) ==
  IF S = {} THEN <<>>
  ELSE LET m == CHOOSE x \in S : \A y \in S \ {x} : CandidateBefore(x, y, tie)
       IN <<m>> \o SortCandidates(S \ {m}, tie)

\* Pruning one cycle late: > cycle + slack + 1.
remove_expired_ready_groups_Late(groups, stats, slack, current_cycle) ==
  LET expired_cycles == {cycle \in DOMAIN groups : current_cycle > cycle + slack + 1}
      pruned == SumOver([t \in expired_cycles |-> GroupSize(groups[t])], expired_cycles)
  IN [groups |-> Erase(groups, expired_cycles),
      stats  |-> [stats EXCEPT !.PRUNED_EXPIRED = @ + pruned],
      pruned |-> pruned]

\* Pruning at the boundary: >= for >.
remove_expired_ready_groups_Early(groups, stats, slack, current_cycle) ==
  LET expired_cycles == {cycle \in DOMAIN groups : current_cycle >= cycle + slack}
      pruned == SumOver([t \in expired_cycles |-> GroupSize(groups[t])], expired_cycles)
  IN [groups |-> Erase(groups, expired_cycles),
      stats  |-> [stats EXCEPT !.PRUNED_EXPIRED = @ + pruned],
      pruned |-> pruned]

\* DramRowOpenScheduler::remove_expired_ready_groups
remove_expired_ready_groups(groups, stats, slack, current_cycle) ==
  LET expired_cycles == {cycle \in DOMAIN groups : current_cycle > cycle + slack}
      pruned == SumOver([t \in expired_cycles |-> GroupSize(groups[t])], expired_cycles)
  IN [groups |-> Erase(groups, expired_cycles),
      stats  |-> [stats EXCEPT !.PRUNED_EXPIRED = @ + pruned],
      pruned |-> pruned]

\* DramRowOpenScheduler::find_best_candidate, the scan from index i on.
\* The result is a 1-based index, 0 for "none"; a minimum of -1 stands for
\* std::numeric_limits<unsigned>::max().
RECURSIVE BestFrom(_, _, _, _, _, _, _)
BestFrom(candidates, usage, group, i, best_index, min_channel_usage, min_rank_usage) ==
  IF i > Len(candidates) THEN best_index
  ELSE
    LET c == candidates[i]
        channel_count == get_channel_usage(usage, c.coords.channel)
        rank_count == get_rank_usage(usage, c.coords.rank)
        is_better ==
          \/ min_channel_usage = -1
          \/ channel_count < min_channel_usage
          \/ /\ channel_count = min_channel_usage
             /\ (min_rank_usage = -1 \/ rank_count < min_rank_usage)
    IN IF \/ ~c.live
          \/ Len(group[c.coords].prefetch_requests) = 0
          \/ is_bank_in_use(usage, c.coords.bank)
       THEN BestFrom(candidates, usage, group, i + 1,
                     best_index, min_channel_usage, min_rank_usage)
       ELSE IF is_better
       THEN BestFrom(candidates, usage, group, i + 1, i, channel_count, rank_count)
       ELSE BestFrom(candidates, usage, group, i + 1,
                     best_index, min_channel_usage, min_rank_usage)

find_best_candidate(candidates, usage, group) ==
  BestFrom(candidates, usage, group, 1, 0, -1, -1)

\* The key pushed to rows_to_remove after the candidate at best_index was
\* accepted: row_keys is in map order, candidates in sorted order.
RowToRemove(row_keys, candidates, best_index) == row_keys[best_index]

\* The iteration without `remaining--` on success.
IssueStep_NoDecrement(s, best_index, pf, ok, row_keys, delay_cycles) ==
  IF ok
  THEN [s EXCEPT !.stats.TOTAL_DELAY_CYCLES = @ + delay_cycles,
                 !.usage_tracker = record_usage(@, s.candidates[best_index].coords),
                 !.rows_to_remove =
                    Append(@, RowToRemove(row_keys, s.candidates, best_index)),
                 !.candidates[best_index].live = FALSE,
                 !.issued_count = @ + 1,
                 !.calls = Append(@, [req |-> pf, cycle |-> s.cycle, ok |-> TRUE])]
  ELSE [s EXCEPT !.stats.ISSUE_FAILURES = @ + 1,
                 !.candidates[best_index].live = FALSE,
                 !.calls = Append(@, [req |-> pf, cycle |-> s.cycle, ok |-> FALSE])]

\* The iteration that, on a refusal, uses up budget and leaves the
\* candidate to be chosen again.
IssueStep_RetriesRefused(s, best_index, pf, ok, row_keys, delay_cycles) ==
  IF ok
  THEN [s EXCEPT !.stats.TOTAL_DELAY_CYCLES = @ + delay_cycles,
                 !.usage_tracker = record_usage(@, s.candidates[best_index].coords),
                 !.rows_to_remove =
                    Append(@, RowToRemove(row_keys, s.candidates, best_index)),
                 !.candidates[best_index].live = FALSE,
                 !.issued_count = @ + 1,
                 !.remaining = @ - 1,
                 !.calls = Append(@, [req |-> pf, cycle |-> s.cycle, ok |-> TRUE])]
  ELSE [s EXCEPT !.stats.ISSUE_FAILURES = @ + 1,
                 !.remaining = @ - 1,
                 !.calls = Append(@, [req |-> pf, cycle |-> s.cycle, ok |-> FALSE])]

\* One iteration of the while loop of issue_from_ready_group, for the
\* candidate at best_index: the locals s afterwards.
IssueStep(s, best_index, pf, ok, row_keys, delay_cycles) ==
  IF ok
  THEN [s EXCEPT !.stats.TOTAL_DELAY_CYCLES = @ + delay_cycles,
                 !.usage_tracker = record_usage(@, s.candidates[best_index].coords),
                 !.rows_to_remove =
                    Append(@, RowToRemove(row_keys, s.candidates, best_index)),
                 !.candidates[best_index].live = FALSE,
                 !.issued_count = @ + 1,
                 !.remaining = @ - 1,
                 !.calls = Append(@, [req |-> pf, cycle |-> s.cycle, ok |-> TRUE])]
  ELSE [s EXCEPT !.stats.ISSUE_FAILURES = @ + 1,
                 !.candidates[best_index].live = FALSE,
                 !.calls = Append(@, [req |-> pf, cycle |-> s.cycle, ok |-> FALSE])]

\* The while loop of issue_from_ready_group.  s holds the locals
\* (candidates, usage_tracker, remaining, issued_count, rows_to_remove), the
\* statistics and the try_issue calls made so far in this tick.
RECURSIVE IssueLoop(_, _, _, _, _)
RECURSIVE IssueFrom(_, _, _, _, _, _)
IssueFrom(s, best_index, group, row_keys, delay_cycles, answers) ==
  IF best_index = 0 THEN s
  ELSE IssueLoop(
         IssueStep(s, best_index,
                   get_highest_confidence_prefetch(
                     group[s.candidates[best_index].coords].prefetch_requests),
                   answers[Len(s.calls) + 1], row_keys, delay_cycles),
         group, row_keys, delay_cycles, answers)

IssueLoop(s, group, row_keys, delay_cycles, answers) ==
  IF s.remaining = 0 THEN s
  ELSE IssueFrom(s, find_best_candidate(s.candidates, s.usage_tracker, group),
                 group, row_keys, delay_cycles, answers)

\* The end of issue_from_ready_group without the erase loop.
RemoveIssued_KeepsRows(group, s) ==
  [group |-> group,
   issued_count |-> s.issued_count,
   stats |-> s.stats,
   calls |-> s.calls]

\* The end of issue_from_ready_group: the issued rows are erased.
RemoveIssued(group, s) ==
  [group |-> Erase(group, {s.rows_to_remove[i] : i \in 1..Len(s.rows_to_remove)}),
   issued_count |-> s.issued_count,
   stats |-> s.stats,
   calls |-> s.calls]

\* DramRowOpenScheduler::issue_from_ready_group
issue_from_ready_group(group, ready_cycle, current_cycle, max_to_issue, stats, calls, answers, tie) ==
  LET eligible == {c \in DOMAIN group : Len(group[c].prefetch_requests) > 0}
      candidates ==
        SortCandidates({[coords |-> c, score |-> group[c].priority_score, live |-> TRUE] :
                          c \in eligible}, tie)
  IN RemoveIssued(group,
       IssueLoop([candidates |-> candidates, usage_tracker |-> NoUsage,
                  remaining |-> Min(max_to_issue, Len(candidates)),
                  issued_count |-> 0, rows_to_remove |-> <<>>,
                  stats |-> stats, calls |-> calls, cycle |-> ready_cycle],
                 group, CoordsAscending(eligible),
                 IF ready_cycle > current_cycle THEN ready_cycle - current_cycle ELSE 0,
                 answers))

\* The emptied group is not marked for removal.
AfterGroup_NoMark(t, cycle, r) ==
  [groups |-> [t.groups EXCEPT ![cycle] = r.group],
   issued_count |-> t.issued_count + r.issued_count,
   empty_cycles |-> t.empty_cycles,
   stats |-> r.stats,
   calls |-> r.calls]

\* issued_count assigned (=) instead of accumulated (+=).
AfterGroup_Assigns(t, cycle, r) ==
  [groups |-> [t.groups EXCEPT ![cycle] = r.group],
   issued_count |-> r.issued_count,
   empty_cycles |-> IF DOMAIN r.group = {}
                    THEN t.empty_cycles \cup {cycle}
                    ELSE t.empty_cycles,
   stats |-> r.stats,
   calls |-> r.calls]

\* The locals of issue_prefetches after the group at `cycle` was served
\* with result r.
AfterGroup(t, cycle, r) ==
  [groups |-> [t.groups EXCEPT ![cycle] = r.group],
   issued_count |-> t.issued_count + r.issued_count,
   empty_cycles |-> IF DOMAIN r.group = {}
                    THEN t.empty_cycles \cup {cycle}
                    ELSE t.empty_cycles,
   stats |-> r.stats,
   calls |-> r.calls]

\* The loop over the ready groups in issue_prefetches.
RECURSIVE GroupLoop(_, _, _, _, _, _)
RECURSIVE GroupNext(_, _, _, _, _, _)
GroupNext(cycles, t2, current_cycle, max_issue, answers, tie) ==
  IF t2.issued_count >= max_issue
  THEN t2
  ELSE GroupLoop(cycles, t2, current_cycle, max_issue, answers, tie)

GroupLoop(cycles, t, current_cycle, max_issue, answers, tie) ==
  IF cycles = <<>> THEN t
  ELSE IF Head(cycles) > current_cycle
  THEN GroupLoop(Tail(cycles), t, current_cycle, max_issue, answers, tie)
  ELSE IF DOMAIN t.groups[Head(cycles)] = {}
  THEN GroupLoop(Tail(cycles), [t EXCEPT !.empty_cycles = @ \cup {Head(cycles)}],
                 current_cycle, max_issue, answers, tie)
  ELSE GroupNext(Tail(cycles),
                 AfterGroup(t, Head(cycles),
                            issue_from_ready_group(t.groups[Head(cycles)], Head(cycles),
                                                   current_cycle,
                                                   max_issue - t.issued_count,
                                                   t.stats, t.calls, answers, tie)),
                 current_cycle, max_issue, answers, tie)

\* The end of issue_prefetches: empty groups erased, successes counted.
FinishIssue(t) ==
  [groups |-> Erase(t.groups, t.empty_cycles),
   stats  |-> [t.stats EXCEPT !.ISSUED_SUCCESS = @ + t.issued_count],
   calls  |-> t.calls]

\* DramRowOpenScheduler::issue_prefetches
issue_prefetches(groups, stats, current_cycle, max_issue, answers, tie) ==
  IF DOMAIN groups = {} \/ max_issue = 0
  THEN [groups |-> groups, stats |-> stats, calls |-> NoCalls]
  ELSE FinishIssue(
         GroupLoop(CyclesAscending(DOMAIN groups),
                   [groups |-> groups, issued_count |-> 0, empty_cycles |-> {},
                    stats |-> stats, calls |-> NoCalls],
                   current_cycle, max_issue, answers, tie))

\* The number of try_issue calls a tick at `now` can make at most: one per
\* row bucket of a group that is ready and not expired.
Offerable(groups, slack, now) ==
  LET ready == {t \in DOMAIN groups : t <= now /\ now <= t + slack}
  IN SumOver([t \in ready |-> Cardinality(DOMAIN groups[t])], ready)

\* The number of row buckets queued: no tick can call try_issue more often,
\* as a candidate is tried at most once.
QueuedRows(groups) ==
  SumOver([t \in DOMAIN groups |-> Cardinality(DOMAIN groups[t])], DOMAIN groups)

\* tick returning before the pruning when the budget is 0.
tick_ReturnsEarly(now, max_issue, answers, tie) ==
  \E p \in {IF max_issue = 0
             THEN [groups |-> ready_groups, stats |-> m_stats, pruned |-> 0]
             ELSE remove_expired_ready_groups(ready_groups, m_stats, time_slack, now)} :
    \E r \in {issue_prefetches(p.groups, p.stats, now, max_issue, answers, tie)} :
      /\ WithinCount(r.stats)
      /\ clock' = now
      /\ ready_groups' = r.groups
      /\ m_stats' = r.stats
      /\ last' = Observed("tick", NoRequest, 0, max_issue, size, FALSE, r.calls, p.pruned)
      /\ UNCHANGED <<max_queue_size, time_slack>>

\* DramRowOpenScheduler::tick, with the sink's answers to its calls in order.
tick(now, max_issue, answers, tie) ==
  \E p \in {remove_expired_ready_groups(ready_groups, m_stats, time_slack, now)} :
    \E r \in {issue_prefetches(p.groups, p.stats, now, max_issue, answers, tie)} :
      /\ WithinCount(r.stats)
      /\ clock' = now
      /\ ready_groups' = r.groups
      /\ m_stats' = r.stats
      /\ last' = Observed("tick", NoRequest, 0, max_issue, size, FALSE, r.calls, p.pruned)
      /\ UNCHANGED <<max_queue_size, time_slack>>

---------------------------------------------------------------------------
(* Specification *)

AddRequest ==
  /\ \E req \in Requests, now \in clock..MaxNow :
       \E delay \in 0..(MaxNow - now) :
         add_request(req, now, delay)
  /\ UNCHANGED siblings

\* Whether some group holds two row buckets of equal score.
HasTies(groups) ==
  \E t \in DOMAIN groups : \E a, b \in DOMAIN groups[t] :
    a # b /\ groups[t][a].priority_score = groups[t][b].priority_score

\* The sort orders that can differ in the current queue.
TieChoices(groups) ==
  IF HasTies(groups) THEN TieBreaks ELSE {CHOOSE f \in TieBreaks : TRUE}

Tick ==
  /\ \E now \in clock..MaxNow, max_issue \in 0..MaxIssue, tie \in TieChoices(ready_groups) :
       \E answers \in [1..(IF max_issue = 0 THEN 0
                           ELSE QueuedRows(ready_groups)) -> BOOLEAN] :
         tick(now, max_issue, answers, tie)
  /\ UNCHANGED siblings

Clear == clear /\ UNCHANGED siblings

ResetStats == reset_stats /\ UNCHANGED siblings

Next == AddRequest \/ Tick \/ Clear \/ ResetStats

Spec == Init /\ [][Next]_vars

\* Runs made of add_request and tick only.
NextAddTick == AddRequest \/ Tick

SpecAddTick == Init /\ [][NextAddTick]_vars

\* The host's run goes on one cycle past the latest possible expiry.
DrainUntil == MaxNow + MaxSlack + 1

\* The host's next tick, at a later cycle than the last one it passed in.
TickLater ==
  \E now \in (clock + 1)..DrainUntil, max_issue \in 0..MaxIssue,
     tie \in TieChoices(ready_groups) :
    \E answers \in [1..QueuedRows(ready_groups) -> BOOLEAN] :
      \E p \in {remove_expired_ready_groups(ready_groups, m_stats, time_slack, now)} :
        \E r \in {issue_prefetches(p.groups, p.stats, now, max_issue, answers, tie)} :
          /\ clock' = now
          /\ ready_groups' = r.groups
          /\ m_stats' = r.stats
          /\ last' = Observed("tick", NoRequest, 0, max_issue, size, FALSE, r.calls, p.pruned)
          /\ UNCHANGED <<max_queue_size, time_slack>>
          /\ UNCHANGED siblings

NextDrain == AddRequest \/ TickLater

\* The prefetcher's cycle hook calls tick on every cycle: ticks keep coming.
SpecDrain == Init /\ [][NextDrain]_vars /\ WF_vars(TickLater)

\* The bank-group field of the address mapping, a field of its own next to
\* the six of the slicer: <<first bit, width>>.
bankgroup_slice == <<12, 1>>

\* dram_open::get_bankgroup, by the address mapping's get_bankgroup.
get_bankgroup(addr) == (addr \div (2 ^ bankgroup_slice[1])) % (2 ^ bankgroup_slice[2])

\* The full row coordinate of an address: (channel, rank, bank_group, bank, row).
RowCoordinate(addr) ==
  [channel    |-> Slice(addr, "channel"),
   rank       |-> Slice(addr, "rank"),
   bank_group |-> get_bankgroup(addr),
   bank       |-> Slice(addr, "bank"),
   row        |-> Slice(addr, "row")]

\* Requests for two addresses that differ in the bank group only, and one
\* for another bank.
BankGroupRequests ==
  {DramRowOpenRequest(0, 8, 0), DramRowOpenRequest(4096, 8, 0),
   DramRowOpenRequest(4096, 10, 1), DramRowOpenRequest(128, 8, 0)}

AddBankGroupRequest ==
  /\ \E req \in BankGroupRequests, now \in clock..MaxNow :
       \E delay \in 0..(MaxNow - now) :
         add_request(req, now, delay)
  /\ UNCHANGED siblings

NextBankGroup == AddBankGroupRequest

SpecBankGroup == Init /\ [][NextBankGroup]_vars

\* Requests whose confidence is at, and above, max_confidence.
ConfidenceRequests ==
  {DramRowOpenRequest(0, MAX_CONFIDENCE, 0), DramRowOpenRequest(512, 3 * MAX_CONFIDENCE, 0),
   DramRowOpenRequest(128, 3 * MAX_CONFIDENCE, 1), DramRowOpenRequest(1, 4 * MAX_CONFIDENCE, 1)}

AddConfidenceRequest ==
  /\ \E req \in ConfidenceRequests, now \in clock..MaxNow :
       \E delay \in 0..(MaxNow - now) :
         add_request(req, now, delay)
  /\ UNCHANGED siblings

NextScore == AddConfidenceRequest

SpecScore == Init /\ [][NextScore]_vars

\* Runs made of add_request only: the queues that adds alone build.
NextAdd == AddRequest

SpecAdd == Init /\ [][NextAdd]_vars

\* add_request as a function of the queue q = [groups, stats]: the queue
\* afterwards and the value returned, for the ready cycle t = now + delay.
AddOutcome(q, max_size, req, t) ==
  IF QueueFull(total_prefetch_count(q.groups), max_size)
  THEN [groups |-> q.groups,
        stats |-> [q.stats EXCEPT !.DROPPED_FULL_QUEUE = @ + 1],
        ret |-> FALSE]
  ELSE LET r == ReadyGroup_add_prefetch(
                  IF t \in DOMAIN q.groups THEN q.groups[t] ELSE EmptyGroup,
                  req, q.stats)
       IN [groups |-> Put(q.groups, t, r.group), stats |-> r.stats, ret |-> r.is_new]

\* tick as a function of the queue: the queue afterwards and the try_issue
\* calls made.
TickOutcome(q, slack, now, max_issue, answers, tie) ==
  LET p == remove_expired_ready_groups(q.groups, q.stats, slack, now)
      r == issue_prefetches(p.groups, p.stats, now, max_issue, answers, tie)
  IN [groups |-> r.groups, stats |-> r.stats, calls |-> r.calls]

\* add_request of a for ready cycle ta, add_request of b for ready cycle tb,
\* then a tick: the queue, the counters and the try_issue calls.
AddAddTick(q, a, ta, b, tb, k) ==
  LET q1 == AddOutcome(q, max_queue_size, a, ta)
      q2 == AddOutcome(q1, max_queue_size, b, tb)
  IN TickOutcome(q2, time_slack, k.now, k.max_issue, k.answers, k.tie)

\* The ticks that may follow: cycle, budget, the sink's answers, sort order.
TickInputs ==
  [now : clock..MaxNow, max_issue : 0..MaxIssue,
   answers : [1..max_queue_size -> BOOLEAN], tie : TieBreaks]

\* Neither of the two calls is dropped as full, in either order.
BothFindRoom(q, a, ta, b, tb) ==
  /\ ~QueueFull(total_prefetch_count(q.groups), max_queue_size)
  /\ ~QueueFull(total_prefetch_count(AddOutcome(q, max_queue_size, a, ta).groups), max_queue_size)
  /\ ~QueueFull(total_prefetch_count(AddOutcome(q, max_queue_size, b, tb).groups), max_queue_size)

\* Runs that start from one ready group of single-request rows and tick it
\* at its ready cycle: the inputs of the selection among the candidates.
\* Four rows of equal score on four banks, two per channel (0, 128, 320,
\* 448); a row on another rank (1216); a row of higher score on bank 0 of
\* channel 1 (64); and a row of a score in between on channel 1 (2368).
SelectRequests ==
  {DramRowOpenRequest(0, 8, 0), DramRowOpenRequest(128, 8, 0),
   DramRowOpenRequest(320, 8, 0), DramRowOpenRequest(448, 8, 0),
   DramRowOpenRequest(1216, 8, 0), DramRowOpenRequest(64, 12, 0),
   DramRowOpenRequest(2368, 10, 0)}

\* The ready group that add_request builds from block-distinct requests of
\* distinct rows.
GroupOf(reqs) ==
  [c \in {DramCoordinates(r.addr) : r \in reqs} |->
     DramRow(<<CHOOSE r \in reqs : DramCoordinates(r.addr) = c>>)]

InitSelect ==
  /\ max_queue_size = MaxRows
  /\ time_slack = 0
  /\ \E reqs \in SUBSET SelectRequests :
       /\ Cardinality(reqs) <= MaxRows
       /\ ready_groups = IF reqs = {} THEN <<>> ELSE (0 :> GroupOf(reqs))
  /\ m_stats = ZeroStats
  /\ clock = 0
  /\ last = Plain("reset_stats", total_prefetch_count(ready_groups))
  /\ dramRows_ = <<>> /\ busyBanks_ = <<>> /\ scheduler_stats = <<>>
  /\ low_confidence_buffer = <<>> /\ berti_counters = <<>> /\ buckets = <<>>

\* The orders std::sort may leave the rows of S in when their scores are equal.
OrdersOf(S) ==
  {f \in [S -> 1..Cardinality(S)] : \A a, b \in S : a # b => f[a] # f[b]}

SortChoices(groups) ==
  IF groups = <<>> THEN {<<>>}
  ELSE IF HasTies(groups) THEN OrdersOf(DOMAIN groups[0])
  ELSE {CHOOSE f \in OrdersOf(DOMAIN groups[0]) : TRUE}

TickSelect ==
  /\ \E max_issue \in 0..MaxIssue, tie \in SortChoices(ready_groups) :
       \E answers \in [1..(IF max_issue = 0 THEN 0
                           ELSE QueuedRows(ready_groups)) -> BOOLEAN] :
         tick(clock, max_issue, answers, tie)
  /\ UNCHANGED siblings

NextSelect == TickSelect

SpecSelect == InitSelect /\ [][NextSelect]_vars

---------------------------------------------------------------------------
(* Observations used by the properties *)

IsAccepted(c) == c.ok
IsRefused(c) == ~c.ok
NumAccepted(calls) == Len(SelectSeq(calls, IsAccepted))
NumRefused(calls) == Len(SelectSeq(calls, IsRefused))

\* The row buckets of a queue, each with its ready cycle and coordinates.
Buckets(groups) ==
  UNION {{[cycle |-> t, coords |-> c, row |-> groups[t][c]] : c \in DOMAIN groups[t]} :
           t \in DOMAIN groups}

BucketsSize(B) ==
  SumOver([b \in B |-> Len(b.row.prefetch_requests)], B)

\* The requests stored in the bucket that req would join at ready cycle t.
BucketOf(groups, t, req) ==
  IF t \in DOMAIN groups /\ DramCoordinates(req.addr) \in DOMAIN groups[t]
  THEN groups[t][DramCoordinates(req.addr)].prefetch_requests
  ELSE <<>>

HoldsBlockEqual(reqs, req) == \E i \in 1..Len(reqs) : BlockEqual(reqs[i], req)

Max(a, b) == IF a > b THEN a ELSE b

---------------------------------------------------------------------------
(* Properties *)

\* C1: after every public operation (add_request, tick, clear, reset_stats)
\* and for every capacity, size() <= capacity().
C1_SizeWithinCapacity == size <= capacity

\* An add_request arrived at a full, non-empty queue.
C1_Witness ==
  /\ last.op = "add_request"
  /\ last.size_before = capacity
  /\ size = capacity
  /\ capacity = MaxCapacity

\* C2: in a run of add_request and tick calls only, between operations
\* REQUESTS_ADDED = ISSUED_SUCCESS + PRUNED_EXPIRED + size().
C2_AddedBalance ==
  m_stats.REQUESTS_ADDED = m_stats.ISSUED_SUCCESS + m_stats.PRUNED_EXPIRED + size

C4_OneIssuePerBank ==
  last.op = "tick" =>
    \A i, j \in 1..Len(last.calls) :
      (i < j /\ last.calls[i].ok /\ last.calls[j].ok)
        => DramCoordinates(last.calls[i].req.addr).bank
             # DramCoordinates(last.calls[j].req.addr).bank

\* C5 as stated: one tick invokes the sink at most max_issue times, refused
\* attempts included.
C5_AttemptsWithinBudget ==
  last.op = "tick" => Len(last.calls) <= last.max_issue

\* C5 amended: refused attempts do not use up the budget: one tick invokes
\* the sink at most max_issue times plus once per refusal, and at most once
\* per row bucket of the groups that are ready and not expired.
C5_AttemptsWithinBudgetPlusRefusals ==
  [][last'.op = "tick"
       => /\ Len(last'.calls) <= last'.max_issue + NumRefused(last'.calls)
          /\ Len(last'.calls) <= Offerable(ready_groups, time_slack, clock')]_vars

\* A tick with budget 1 made two attempts, the first refused.
C5_Witness ==
  /\ last.op = "tick"
  /\ last.max_issue = 1
  /\ Len(last.calls) = 2
  /\ ~last.calls[1].ok
  /\ last.calls[2].ok

\* C6: in one tick the try_issue calls that return true, over all ready
\* groups, number at most max_issue, and ISSUED_SUCCESS grows by exactly
\* that number.
C6_SuccessesWithinBudget ==
  [][last'.op = "tick"
       => /\ NumAccepted(last'.calls) <= last'.max_issue
          /\ m_stats'.ISSUED_SUCCESS
               = m_stats.ISSUED_SUCCESS + NumAccepted(last'.calls)]_vars

\* A tick with budget 1 found two ready groups, was refused in the first
\* and accepted in the second.
C6_Witness ==
  /\ last.op = "tick"
  /\ last.max_issue = 1
  /\ Len(last.calls) = 2
  /\ last.calls[1].cycle # last.calls[2].cycle
  /\ ~last.calls[1].ok
  /\ last.calls[2].ok
  /\ m_stats.ISSUED_SUCCESS = 1

C8_DuplicateCoalesced ==
  [][(/\ last'.op = "add_request"
      /\ ~QueueFull(size, capacity)
      /\ HoldsBlockEqual(BucketOf(ready_groups, last'.ready_cycle, last'.req), last'.req))
       => LET old == BucketOf(ready_groups, last'.ready_cycle, last'.req)
              new == BucketOf(ready_groups', last'.ready_cycle, last'.req)
              req == last'.req
          IN /\ ~last'.ret
             /\ size' = size
             /\ m_stats'.DUPLICATES_DETECTED = m_stats.DUPLICATES_DETECTED + 1
             /\ m_stats'.REQUESTS_ADDED = m_stats.REQUESTS_ADDED
             /\ Len(new) = Len(old)
             /\ \A i \in 1..Len(old) :
                  IF BlockEqual(old[i], req)
                  THEN /\ new[i].addr = old[i].addr
                       /\ new[i].confidence = Max(old[i].confidence, req.confidence)
                       /\ new[i].confidence >= old[i].confidence
                       /\ new[i].metadata =
                            IF req.confidence > old[i].confidence
                            THEN req.metadata ELSE old[i].metadata
                  ELSE new[i] = old[i]]_vars

\* A duplicate of equal confidence and other metadata was coalesced: the
\* stored metadata is still the old one.
C8_Witness ==
  /\ last.op = "add_request"
  /\ ~last.ret
  /\ last.size_before < capacity
  /\ \E i \in 1..Len(BucketOf(ready_groups, last.ready_cycle, last.req)) :
       LET e == BucketOf(ready_groups, last.ready_cycle, last.req)[i]
       IN /\ BlockEqual(e, last.req)
          /\ e.confidence = last.req.confidence
          /\ e.metadata # last.req.metadata

\* C9: no row bucket of any ready group holds two requests whose addresses
\* fall in the same cache block.
C9_NoBlockEqualPair ==
  \A b \in Buckets(ready_groups) :
    \A i, j \in 1..Len(b.row.prefetch_requests) :
      i # j => block_number(b.row.prefetch_requests[i].addr)
                 # block_number(b.row.prefetch_requests[j].addr)

\* A request of another address in the same block was coalesced into the
\* bucket that holds its block.
C9_Witness ==
  /\ last.op = "add_request"
  /\ ~last.ret
  /\ last.size_before < capacity
  /\ LET stored == BucketOf(ready_groups, last.ready_cycle, last.req)
     IN \E i \in 1..Len(stored) : /\ BlockEqual(stored[i], last.req)
                                  /\ stored[i].addr # last.req.addr

\* C10: when size() = capacity(), add_request returns false, raises
\* DROPPED_FULL_QUEUE by 1 and changes nothing else: no group or bucket is
\* created, no stored request or score changes, no other counter moves.
C10_DroppedWhenFull ==
  [][(last'.op = "add_request" /\ size = capacity)
       => /\ ~last'.ret
          /\ m_stats' = [m_stats EXCEPT !.DROPPED_FULL_QUEUE = @ + 1]
          /\ ready_groups' = ready_groups
          /\ size' = size
          /\ UNCHANGED <<max_queue_size, time_slack>>]_vars

\* With the largest capacity c, c requests were accepted and the next add,
\* of a block-distinct request into a bucket that does not exist, was dropped.
C10_Witness ==
  /\ last.op = "add_request"
  /\ ~last.ret
  /\ capacity = MaxCapacity
  /\ last.size_before = capacity
  /\ m_stats.REQUESTS_ADDED = capacity
  /\ m_stats.DROPPED_FULL_QUEUE = 1
  /\ BucketOf(ready_groups, last.ready_cycle, last.req) = <<>>

\* C11: every request passed to try_issue during tick(now, ...) is stored in
\* a ready group whose ready cycle t satisfies t <= now <= t + slack; with
\* slack 0 it is offered only in a tick with now = t, the sum of the cycle
\* and the delay it was added with.
C11_OfferedInWindow ==
  [][last'.op = "tick"
       => \A i \in 1..Len(last'.calls) :
            LET c == last'.calls[i]
            IN /\ c.cycle <= clock'
               /\ clock' <= c.cycle + time_slack
               /\ time_slack = 0 => clock' = c.cycle
               /\ c.cycle \in DOMAIN ready_groups
               /\ \E b \in Buckets(ready_groups) :
                    /\ b.cycle = c.cycle
                    /\ \E k \in 1..Len(b.row.prefetch_requests) :
                         b.row.prefetch_requests[k] = c.req]_vars

\* With slack 0 a tick at cycle 0 with budget 2 issued the one ready
\* request and left the group that becomes ready at cycle 1 untouched.
C11_Witness ==
  /\ last.op = "tick"
  /\ time_slack = 0
  /\ clock = 0
  /\ last.max_issue = 2
  /\ Len(last.calls) = 1
  /\ last.calls[1].ok
  /\ last.calls[1].cycle = 0
  /\ DOMAIN ready_groups = {1}

\* The ready cycles of the groups that are expired at cycle now.
ExpiredAt(groups, slack, now) == {t \in DOMAIN groups : now > t + slack}

\* C12: tick(now, ...) removes exactly the ready groups with now > t + slack
\* before it issues anything, raising PRUNED_EXPIRED by the number of
\* requests those groups held; a group with now <= t + slack leaves the
\* queue only by issuing, and afterwards no group with now > t + slack is
\* queued.
C12_PrunesExactlyExpired ==
  [][last'.op = "tick"
       => LET expired == ExpiredAt(ready_groups, time_slack, clock')
              held == SumOver([t \in expired |-> GroupSize(ready_groups[t])], expired)
          IN /\ m_stats'.PRUNED_EXPIRED = m_stats.PRUNED_EXPIRED + held
             /\ last'.pruned = held
             /\ expired \cap DOMAIN ready_groups' = {}
             /\ ExpiredAt(ready_groups', time_slack, clock') = {}
             /\ \A i \in 1..Len(last'.calls) : last'.calls[i].cycle \notin expired
             /\ \A t \in (DOMAIN ready_groups) \ expired :
                  \/ /\ t \in DOMAIN ready_groups'
                     /\ DOMAIN ready_groups'[t] \subseteq DOMAIN ready_groups[t]
                  \/ \E i \in 1..Len(last'.calls) :
                       last'.calls[i].ok /\ last'.calls[i].cycle = t
             /\ \A t \in (DOMAIN ready_groups) \ expired :
                  t > clock' => /\ t \in DOMAIN ready_groups'
                                /\ ready_groups'[t] = ready_groups[t]]_vars

\* With slack 0 a tick at cycle 1 pruned the group of cycle 0 and kept the
\* group of cycle 1, whose request the sink refused.
C12_Witness ==
  /\ last.op = "tick"
  /\ time_slack = 0
  /\ clock = 1
  /\ last.pruned = 1
  /\ m_stats.PRUNED_EXPIRED = 1
  /\ Len(last.calls) = 1
  /\ ~last.calls[1].ok
  /\ DOMAIN ready_groups = {1}

\* The one request of a queue that holds a single request.
OnlyRequest(groups) ==
  (CHOOSE b \in Buckets(groups) : TRUE).row.prefetch_requests[1]

\* C13: when a single request is queued, with ready cycle t, a tick at
\* now = t + slack with max_issue >= 1 offers it to the sink and, if the
\* sink accepts, issues it (ISSUED_SUCCESS + 1, PRUNED_EXPIRED unchanged),
\* while a tick at now = t + slack + 1 prunes it without any try_issue call
\* (PRUNED_EXPIRED + 1).
C13_IssuableAtBoundary ==
  [][(last'.op = "tick" /\ size = 1)
       => LET t == CHOOSE c \in DOMAIN ready_groups : DOMAIN ready_groups[c] # {}
          IN /\ (clock' = t + time_slack /\ last'.max_issue >= 1)
                  => /\ Len(last'.calls) = 1
                     /\ last'.calls[1].req = OnlyRequest(ready_groups)
                     /\ last'.calls[1].cycle = t
                     /\ m_stats'.PRUNED_EXPIRED = m_stats.PRUNED_EXPIRED
                     /\ last'.calls[1].ok
                          => /\ m_stats'.ISSUED_SUCCESS = m_stats.ISSUED_SUCCESS + 1
                             /\ size' = 0
             /\ clock' = t + time_slack + 1
                  => /\ last'.calls = NoCalls
                     /\ m_stats'.PRUNED_EXPIRED = m_stats.PRUNED_EXPIRED + 1
                     /\ m_stats'.ISSUED_SUCCESS = m_stats.ISSUED_SUCCESS
                     /\ size' = 0]_vars

\* With slack 1 the only request, ready at cycle 0, was issued by a tick at
\* cycle 1, the last cycle of its window.
C13_Witness ==
  /\ last.op = "tick"
  /\ time_slack = 1
  /\ clock = 1
  /\ last.size_before = 1
  /\ last.pruned = 0
  /\ Len(last.calls) = 1
  /\ last.calls[1].ok
  /\ last.calls[1].cycle = 0
  /\ m_stats.ISSUED_SUCCESS = 1
  /\ m_stats.PRUNED_EXPIRED = 0
  /\ size = 0

\* Whether req is stored in the bucket of its row in the group of cycle t.
StoredIn(groups, t, req) ==
  \E k \in 1..Len(BucketOf(groups, t, req)) : BucketOf(groups, t, req)[k] = req

\* C14: every try_issue call of a tick that returns false raises
\* ISSUE_FAILURES by 1 and leaves its request in its bucket, ISSUED_SUCCESS
\* counts only the accepted calls; and when the refused request is the only
\* one queued, the next tick inside its window with max_issue >= 1 offers
\* it again and issues it if the sink accepts.
C14_RefusedStaysQueued ==
  [][last'.op = "tick"
       => /\ m_stats'.ISSUE_FAILURES = m_stats.ISSUE_FAILURES + NumRefused(last'.calls)
          /\ m_stats'.ISSUED_SUCCESS = m_stats.ISSUED_SUCCESS + NumAccepted(last'.calls)
          /\ NumAccepted(last'.calls) = 0 => size' = size - last'.pruned
          /\ \A i \in 1..Len(last'.calls) :
               ~last'.calls[i].ok
                 => StoredIn(ready_groups', last'.calls[i].cycle, last'.calls[i].req)
          /\ (/\ last.op = "tick"
              /\ size = 1
              /\ Len(last.calls) >= 1
              /\ ~last.calls[Len(last.calls)].ok
              /\ last.calls[Len(last.calls)].req = OnlyRequest(ready_groups)
              /\ clock' <= last.calls[Len(last.calls)].cycle + time_slack
              /\ last'.max_issue >= 1)
               => /\ Len(last'.calls) = 1
                  /\ last'.calls[1].req = OnlyRequest(ready_groups)
                  /\ last'.calls[1].ok
                       => /\ size' = 0
                          /\ m_stats'.ISSUED_SUCCESS = m_stats.ISSUED_SUCCESS + 1]_vars

\* The cycles the accepted calls of a tick at cycle now were issued after
\* their requests became ready, summed.
RECURSIVE ResidenceOf(_, _)
ResidenceOf(calls, now) ==
  IF calls = <<>> THEN 0
  ELSE (IF Head(calls).ok THEN now - Head(calls).cycle ELSE 0)
         + ResidenceOf(Tail(calls), now)

\* C15: every successful issue in tick(now, ...) of a request of the group
\* with ready cycle t raises TOTAL_DELAY_CYCLES by now - t, so a tick raises
\* it by the sum of now - t over its accepted calls.
C15_DelayIsResidence ==
  [][last'.op = "tick"
       => m_stats'.TOTAL_DELAY_CYCLES
            = m_stats.TOTAL_DELAY_CYCLES + ResidenceOf(last'.calls, clock')]_vars

\* C17: tick with max_issue = 0 never invokes try_issue and leaves
\* ISSUED_SUCCESS, ISSUE_FAILURES and every group that is not expired
\* unchanged, while it still removes the expired groups and counts their
\* requests in PRUNED_EXPIRED.
C17_ZeroBudgetOnlyPrunes ==
  [][(last'.op = "tick" /\ last'.max_issue = 0)
       => LET expired == ExpiredAt(ready_groups, time_slack, clock')
              held == SumOver([t \in expired |-> GroupSize(ready_groups[t])], expired)
          IN /\ last'.calls = NoCalls
             /\ ready_groups' = Erase(ready_groups, expired)
             /\ m_stats' = [m_stats EXCEPT !.PRUNED_EXPIRED = @ + held]
             /\ last'.pruned = held]_vars

\* With slack 0 a tick at cycle 1 with budget 0 pruned the request of
\* cycle 0 and left the ready request of cycle 1 queued.
C17_Witness ==
  /\ last.op = "tick"
  /\ last.max_issue = 0
  /\ time_slack = 0
  /\ clock = 1
  /\ last.size_before = 2
  /\ last.pruned = 1
  /\ m_stats.PRUNED_EXPIRED = 1
  /\ DOMAIN ready_groups = {1}
  /\ size = 1

\* The second of two successive add_request calls with block-equal
\* addresses, identical confidence and the same now and delay, the first of
\* which was accepted.
SecondOfPair ==
  /\ last.op = "add_request"
  /\ last.ret
  /\ last'.op = "add_request"
  /\ BlockEqual(last.req, last'.req)
  /\ last'.req.confidence = last.req.confidence
  /\ clock' = clock
  /\ last'.ready_cycle = last.ready_cycle

\* The first add_request of a request whose bucket holds no block-equal
\* request, into a queue with a free slot, is accepted.
FirstAccepted ==
  (/\ last'.op = "add_request"
   /\ size < capacity
   /\ ~HoldsBlockEqual(BucketOf(ready_groups, last'.ready_cycle, last'.req), last'.req))
    => /\ last'.ret
       /\ size' = size + 1

\* C18 as stated: with at least one free slot before the first call, the
\* two calls return (Accepted, CoalescedDuplicate), the second is counted
\* in DUPLICATES_DETECTED and not in DROPPED_FULL_QUEUE, and size() has
\* grown by exactly 1.
C18_PairCoalesces ==
  [][/\ FirstAccepted
     /\ SecondOfPair
          => /\ ~last'.ret
             /\ m_stats'.DUPLICATES_DETECTED = m_stats.DUPLICATES_DETECTED + 1
             /\ m_stats'.DROPPED_FULL_QUEUE = m_stats.DROPPED_FULL_QUEUE
             /\ size' = last.size_before + 1]_vars

\* C18 amended: the second call is coalesced and counted in
\* DUPLICATES_DETECTED only when a slot is still free after the first, that
\* is with at least two free slots at the start; when the first call took
\* the last slot the second is dropped as full, counted in
\* DROPPED_FULL_QUEUE and not in DUPLICATES_DETECTED.  In both cases it
\* returns false and size() has grown by exactly 1.
C18_PairCoalescesWithRoom ==
  [][/\ FirstAccepted
     /\ SecondOfPair
          => /\ ~last'.ret
             /\ size' = last.size_before + 1
             /\ ready_groups' = ready_groups
             /\ m_stats' =
                  IF size < capacity
                  THEN [m_stats EXCEPT !.DUPLICATES_DETECTED = @ + 1]
                  ELSE [m_stats EXCEPT !.DROPPED_FULL_QUEUE = @ + 1]]_vars

\* One request was accepted and a block-equal one of the same confidence
\* and another address was then coalesced into it, a slot being free.
C18_Witness ==
  /\ last.op = "add_request"
  /\ ~last.ret
  /\ capacity = 2
  /\ size = 1
  /\ m_stats.REQUESTS_ADDED = 1
  /\ m_stats.DUPLICATES_DETECTED = 1
  /\ m_stats.DROPPED_FULL_QUEUE = 0
  /\ LET stored == BucketOf(ready_groups, last.ready_cycle, last.req)
     IN /\ Len(stored) = 1
        /\ stored[1].confidence = last.req.confidence
        /\ stored[1].addr # last.req.addr

\* clear() drops every ready group and changes nothing else.
ClearDropsAll ==
  last'.op = "clear"
    => /\ ready_groups' = <<>>
       /\ size' = 0
       /\ UNCHANGED <<max_queue_size, time_slack, m_stats>>

\* C19 as stated: clear() drops every ready group, leaving size() = 0 and
\* the configuration unchanged, and the add_request that follows it returns
\* true, whatever the queue held before.
C19_AcceptedAfterClear ==
  [][/\ ClearDropsAll
     /\ (last.op = "clear" /\ last'.op = "add_request") => last'.ret]_vars

\* C19 amended: the add_request that follows clear() returns true, leaving
\* size() = 1, exactly when capacity() >= 1; with capacity 0 it is dropped
\* as full like every other add_request.
C19_AcceptedAfterClearWithCapacity ==
  [][/\ ClearDropsAll
     /\ (last.op = "clear" /\ last'.op = "add_request")
          => /\ last'.ret <=> capacity >= 1
             /\ size' = IF capacity >= 1 THEN 1 ELSE 0
             /\ m_stats' =
                  IF capacity >= 1
                  THEN [m_stats EXCEPT !.REQUESTS_ADDED = @ + 1]
                  ELSE [m_stats EXCEPT !.DROPPED_FULL_QUEUE = @ + 1]]_vars

\* A queue filled to its capacity of 2 was emptied without any issue or
\* pruning, and the next request was accepted.
C19_Witness ==
  /\ last.op = "add_request"
  /\ last.ret
  /\ last.size_before = 0
  /\ size = 1
  /\ capacity = 2
  /\ m_stats.REQUESTS_ADDED = 3
  /\ m_stats.ISSUED_SUCCESS = 0
  /\ m_stats.PRUNED_EXPIRED = 0

\* C20: reset_stats() sets the eight counters to 0 and leaves the queue as
\* it was: the same ready groups, buckets, requests, scores and size(), and
\* the same configuration.
C20_ResetZeroesCountersOnly ==
  [][last'.op = "reset_stats"
       => /\ \A n \in StatNames : m_stats'[n] = 0
          /\ Cardinality(StatNames) = 8
          /\ ready_groups' = ready_groups
          /\ size' = size
          /\ UNCHANGED <<max_queue_size, time_slack>>]_vars

\* The counters were reset while two requests were queued in two groups.
C20_Witness ==
  /\ last.op = "reset_stats"
  /\ m_stats = ZeroStats
  /\ size = 2
  /\ DOMAIN ready_groups = {0, 1}

\* The calls before the k-th one of a tick that served the same ready group.
EarlierCalls(calls, k) == {j \in 1..(k - 1) : calls[j].cycle = calls[k].cycle}

\* What the usage tracker holds at the k-th call: the accepted ones among
\* the earlier calls, counted per channel and per rank, and their banks.
ChannelCount(calls, k, x) ==
  Cardinality({j \in EarlierCalls(calls, k) :
                 calls[j].ok /\ DramCoordinates(calls[j].req.addr).channel = x.channel})

RankCount(calls, k, x) ==
  Cardinality({j \in EarlierCalls(calls, k) :
                 calls[j].ok /\ DramCoordinates(calls[j].req.addr).rank = x.rank})

BusyBanks(calls, k) ==
  {DramCoordinates(calls[j].req.addr).bank :
     j \in {i \in EarlierCalls(calls, k) : calls[i].ok}}

\* The rows of the group that the k-th selection may choose from: not yet
\* tried in this tick and on a bank that is not busy.
Selectable(group, calls, k) ==
  {x \in DOMAIN group :
     /\ \A j \in EarlierCalls(calls, k) : DramCoordinates(calls[j].req.addr) # x
     /\ x.bank \notin BusyBanks(calls, k)}

\* (channel count, rank count) of x is lexicographically at most that of y.
UsageAtMost(calls, k, x, y) ==
  \/ ChannelCount(calls, k, x) < ChannelCount(calls, k, y)
  \/ /\ ChannelCount(calls, k, x) = ChannelCount(calls, k, y)
     /\ RankCount(calls, k, x) <= RankCount(calls, k, y)

\* Four rows of equal score on four banks, two on channel 0 and two on
\* channel 1.
FourBalanced(group) ==
  /\ Cardinality(DOMAIN group) = 4
  /\ \A x, y \in DOMAIN group :
       /\ group[x].priority_score = group[y].priority_score
       /\ x # y => x.bank # y.bank
  /\ Cardinality({x \in DOMAIN group : x.channel = 0}) = 2
  /\ Cardinality({x \in DOMAIN group : x.channel = 1}) = 2

\* C16: each selection inside a ready group picks, among the rows not yet
\* tried in this tick whose bank is not busy, one with the smallest
\* (channel count, rank count) in lexicographic order and, among those, of
\* the highest score, and offers the highest-confidence request of that row;
\* so of four equal-score rows on distinct banks, two per channel, a tick
\* with budget 2 and an accepting sink issues one row of each channel.
C16_PicksLeastUsed ==
  [][last'.op = "tick"
       => /\ \A k \in 1..Len(last'.calls) :
               LET calls == last'.calls
                   group == ready_groups[calls[k].cycle]
                   pick == DramCoordinates(calls[k].req.addr)
                   among == Selectable(group, calls, k)
               IN /\ pick \in among
                  /\ calls[k].req =
                       get_highest_confidence_prefetch(group[pick].prefetch_requests)
                  /\ \A x \in among :
                       /\ UsageAtMost(calls, k, pick, x)
                       /\ UsageAtMost(calls, k, x, pick)
                            => ~RatLess(group[pick].priority_score,
                                        group[x].priority_score)
          /\ (/\ DOMAIN ready_groups = {0}
              /\ FourBalanced(ready_groups[0])
              /\ last'.max_issue = 2
              /\ Len(last'.calls) >= 1
              /\ \A k \in 1..Len(last'.calls) : last'.calls[k].ok)
               => /\ Len(last'.calls) = 2
                  /\ DramCoordinates(last'.calls[1].req.addr).channel
                       # DramCoordinates(last'.calls[2].req.addr).channel]_vars

\* After the row of highest score, on channel 1, was issued, the row on
\* channel 0 was offered before the row of channel 1 on a free bank, which
\* has the higher score and was offered last.
C16_Witness ==
  /\ last.op = "tick"
  /\ last.size_before = 3
  /\ last.max_issue = 2
  /\ Len(last.calls) = 3
  /\ last.calls[1].ok
  /\ ~last.calls[2].ok
  /\ last.calls[3].ok
  /\ last.calls[1].req = DramRowOpenRequest(64, 12, 0)
  /\ last.calls[2].req = DramRowOpenRequest(128, 8, 0)
  /\ last.calls[3].req = DramRowOpenRequest(2368, 10, 0)
  /\ m_stats.ISSUED_SUCCESS = 2

\* The row buckets of the accepted calls of a tick, as they were queued.
IssuedBuckets(groups, calls) ==
  {b \in Buckets(groups) :
     \E i \in 1..Len(calls) :
       /\ calls[i].ok
       /\ calls[i].cycle = b.cycle
       /\ DramCoordinates(calls[i].req.addr) = b.coords}

\* C21: when try_issue returns true for the request chosen from a row
\* bucket, that whole bucket leaves its ready group: after the tick no
\* bucket of an accepted call is queued, every other bucket that was not
\* pruned is, and size() has dropped by the request counts of the issued
\* buckets (and of the pruned groups) while ISSUED_SUCCESS grew by 1 per
\* accepted call.
C21_IssuedBucketRemoved ==
  [][last'.op = "tick"
       => LET expired == ExpiredAt(ready_groups, time_slack, clock')
              issued == IssuedBuckets(ready_groups, last'.calls)
              kept == {b \in Buckets(ready_groups) : b.cycle \notin expired} \ issued
          IN /\ Buckets(ready_groups') = kept
             /\ size' = size - last'.pruned - BucketsSize(issued)
             /\ m_stats'.ISSUED_SUCCESS
                  = m_stats.ISSUED_SUCCESS + Cardinality(issued)]_vars

\* C22: within one ready group and tick, once a row on bank index b has
\* been accepted, no other row of that group with bank index b is offered
\* afterwards, whatever its channel or rank, and it stays queued; so of two
\* ready rows of one group that share a bank, a tick with budget 2 and an
\* accepting sink issues exactly one and leaves the other queued.
C22_BusyBankRowStays ==
  [][last'.op = "tick"
       => LET calls == last'.calls
          IN /\ \A i \in 1..Len(calls) :
                  calls[i].ok
                    => LET pick == DramCoordinates(calls[i].req.addr)
                           group == ready_groups[calls[i].cycle]
                       IN \A x \in DOMAIN group :
                            (x # pick /\ x.bank = pick.bank)
                              => /\ \A j \in (i + 1)..Len(calls) :
                                      calls[j].cycle = calls[i].cycle
                                        => DramCoordinates(calls[j].req.addr) # x
                                 /\ calls[i].cycle \in DOMAIN ready_groups'
                                 /\ x \in DOMAIN ready_groups'[calls[i].cycle]
                                 /\ ready_groups'[calls[i].cycle][x] = group[x]
             /\ (/\ DOMAIN ready_groups = {0}
                 /\ Cardinality(DOMAIN ready_groups[0]) = 2
                 /\ \A x, y \in DOMAIN ready_groups[0] : x.bank = y.bank
                 /\ last'.max_issue = 2
                 /\ Len(calls) >= 1
                 /\ \A k \in 1..Len(calls) : calls[k].ok)
                  => /\ Len(calls) = 1
                     /\ m_stats'.ISSUED_SUCCESS = m_stats.ISSUED_SUCCESS + 1
                     /\ Buckets(ready_groups')
                          = Buckets(ready_groups)
                              \ IssuedBuckets(ready_groups, calls)]_vars

\* C23: within one tick each row bucket is offered to the sink at most
\* once: no two try_issue calls of a tick are for requests of the same row
\* and ready cycle, whether the first was refused or accepted.
C23_BucketOfferedOnce ==
  last.op = "tick"
    => \A i, j \in 1..Len(last.calls) :
         (/\ i < j
          /\ last.calls[i].cycle = last.calls[j].cycle)
           => DramCoordinates(last.calls[i].req.addr)
                # DramCoordinates(last.calls[j].req.addr)

\* A tick with budget 2 was refused the request of the only bucket, which
\* holds two requests, and made no second call.
C23_Witness ==
  /\ last.op = "tick"
  /\ last.max_issue = 2
  /\ Len(last.calls) = 1
  /\ ~last.calls[1].ok
  /\ size = 2
  /\ Cardinality(Buckets(ready_groups)) = 1

\* C24: within one tick the ready groups are served in ascending ready
\* cycle: every try_issue call for a request of group t comes before every
\* call for a request of a group t' > t, and no call is made once max_issue
\* requests have been accepted.
C24_GroupsInCycleOrder ==
  last.op = "tick"
    => /\ \A i, j \in 1..Len(last.calls) :
            i < j => last.calls[i].cycle <= last.calls[j].cycle
       /\ \A j \in 1..Len(last.calls) :
            NumAccepted(SubSeq(last.calls, 1, j - 1)) < last.max_issue

\* A tick with budget 2 was refused in the group of cycle 0, went on to the
\* group of cycle 1 and issued its request.
C24_Witness ==
  /\ last.op = "tick"
  /\ last.max_issue = 2
  /\ Len(last.calls) = 2
  /\ last.calls[1].cycle = 0
  /\ ~last.calls[1].ok
  /\ last.calls[2].cycle = 1
  /\ last.calls[2].ok
  /\ DOMAIN ready_groups = {0}

\* C25: the request passed to try_issue for a row bucket is a member of
\* that bucket of maximal confidence, the confidences being the stored ones
\* after any coalescing, and of several members of maximal confidence it is
\* the one inserted first.
C25_OffersFirstMostConfident ==
  [][last'.op = "tick"
       => \A i \in 1..Len(last'.calls) :
            LET c == last'.calls[i]
                reqs == BucketOf(ready_groups, c.cycle, c.req)
            IN \E k \in 1..Len(reqs) :
                 /\ reqs[k] = c.req
                 /\ \A j \in 1..Len(reqs) : reqs[j].confidence <= reqs[k].confidence
                 /\ \A j \in 1..(k - 1) : reqs[j].confidence < reqs[k].confidence]_vars

\* Of a bucket of two requests of equal confidence the one inserted first,
\* which has the larger address, was offered and refused.
C25_Witness ==
  /\ last.op = "tick"
  /\ Len(last.calls) = 1
  /\ ~last.calls[1].ok
  /\ LET reqs == BucketOf(ready_groups, last.calls[1].cycle, last.calls[1].req)
     IN /\ Len(reqs) = 2
        /\ reqs[1].confidence = reqs[2].confidence
        /\ reqs[1].addr > reqs[2].addr
        /\ last.calls[1].req = reqs[1]

\* C26: when size() = capacity(), an add_request whose address is
\* block-equal to a request queued for the same row and ready cycle is
\* dropped as full: DROPPED_FULL_QUEUE grows by 1, DUPLICATES_DETECTED and
\* the other counters do not move, and no stored confidence or metadata
\* changes, even when the new confidence is the higher one.
C26_FullDropsDuplicate ==
  [][(/\ last'.op = "add_request"
      /\ size = capacity
      /\ HoldsBlockEqual(BucketOf(ready_groups, last'.ready_cycle, last'.req), last'.req))
       => /\ ~last'.ret
          /\ m_stats'.DROPPED_FULL_QUEUE = m_stats.DROPPED_FULL_QUEUE + 1
          /\ m_stats'.DUPLICATES_DETECTED = m_stats.DUPLICATES_DETECTED
          /\ \A n \in StatNames \ {"DROPPED_FULL_QUEUE"} : m_stats'[n] = m_stats[n]
          /\ BucketOf(ready_groups', last'.ready_cycle, last'.req)
               = BucketOf(ready_groups, last'.ready_cycle, last'.req)
          /\ ready_groups' = ready_groups]_vars

\* A full queue dropped a request that is block-equal to a stored request
\* of lower confidence; the stored confidence is still the lower one.
C26_Witness ==
  /\ last.op = "add_request"
  /\ ~last.ret
  /\ capacity >= 1
  /\ last.size_before = capacity
  /\ m_stats.DROPPED_FULL_QUEUE = 1
  /\ m_stats.DUPLICATES_DETECTED = 0
  /\ LET stored == BucketOf(ready_groups, last.ready_cycle, last.req)
     IN \E i \in 1..Len(stored) :
          /\ BlockEqual(stored[i], last.req)
          /\ stored[i].confidence < last.req.confidence
          /\ stored[i].metadata # last.req.metadata

\* The queue as it stands.
Queue == [groups |-> ready_groups, stats |-> m_stats]

\* C27 as stated: for two add_request calls followed by a tick, swapping
\* the two add_request calls leaves the resulting queue, counters and
\* try_issue calls unchanged whenever the two requests target different rows
\* or are block-equal.
C27_AddsCommute ==
  \A a, b \in Requests : \A ta, tb \in clock..MaxNow : \A k \in TickInputs :
    (DramCoordinates(a.addr) # DramCoordinates(b.addr) \/ BlockEqual(a, b))
      => AddAddTick(Queue, a, ta, b, tb, k) = AddAddTick(Queue, b, tb, a, ta, k)

\* C27 amended: the swap changes nothing when neither call is dropped as
\* full in either order and the two requests target different rows, or are
\* block-equal and either have different ready cycles or have the same
\* address and, if their confidences are equal, the same metadata.
C27_AddsCommuteWithRoom ==
  \A a, b \in Requests : \A ta, tb \in clock..MaxNow : \A k \in TickInputs :
    (/\ BothFindRoom(Queue, a, ta, b, tb)
     /\ \/ DramCoordinates(a.addr) # DramCoordinates(b.addr)
        \/ /\ BlockEqual(a, b)
           /\ \/ ta # tb
              \/ /\ a.addr = b.addr
                 /\ a.confidence = b.confidence => a.metadata = b.metadata)
      => AddAddTick(Queue, a, ta, b, tb, k) = AddAddTick(Queue, b, tb, a, ta, k)

\* A queue of capacity 2 holds one request after an add; two requests that
\* are block-equal to it and share an address, of different confidences, both
\* find room in either order, the stored request ends with the higher
\* confidence whichever comes first, and the tick that follows offers it.
C27_Witness ==
  /\ last.op = "add_request" /\ last.ret
  /\ max_queue_size = 2 /\ size = 1
  /\ \E a, b \in Requests : \E k \in TickInputs :
       /\ BlockEqual(a, b) /\ a.addr = b.addr /\ a.confidence < b.confidence
       /\ BlockEqual(a, last.req) /\ last.req.confidence < b.confidence
       /\ BothFindRoom(Queue, a, last.ready_cycle, b, last.ready_cycle)
       /\ AddOutcome(Queue, max_queue_size, a, last.ready_cycle).stats.DUPLICATES_DETECTED
            = m_stats.DUPLICATES_DETECTED + 1
       /\ Len(AddAddTick(Queue, a, last.ready_cycle, b, last.ready_cycle, k).calls) = 1
       /\ AddAddTick(Queue, a, last.ready_cycle, b, last.ready_cycle, k).calls[1].req.confidence
            = b.confidence
       /\ AddAddTick(Queue, a, last.ready_cycle, b, last.ready_cycle, k)
            = AddAddTick(Queue, b, last.ready_cycle, a, last.ready_cycle, k)

\* The first try_issue call of a tick made from the ready group of cycle t.
FirstCallOf(calls, t) ==
  CHOOSE i \in 1..Len(calls) :
    /\ calls[i].cycle = t
    /\ \A j \in 1..(i - 1) : calls[j].cycle # t

\* C28: when two row buckets of one ready group have equal score and equal
\* channel and rank counts, the bucket inserted into the group first is
\* selected first, whatever the order of their coordinates.  Here: the last
\* add_request created the second bucket of its group, both buckets have the
\* same score, and the next step is a tick that offers from that group; at
\* its first selection nothing has been recorded, so the counts are equal,
\* and the call must be for the older bucket.
C28_FirstInsertedFirst ==
  [][(/\ last.op = "add_request" /\ last.ret
      /\ last'.op = "tick"
      /\ Len(BucketOf(ready_groups, last.ready_cycle, last.req)) = 1
      /\ Cardinality(DOMAIN ready_groups[last.ready_cycle]) = 2
      /\ \A a, b \in DOMAIN ready_groups[last.ready_cycle] :
           ready_groups[last.ready_cycle][a].priority_score
             = ready_groups[last.ready_cycle][b].priority_score
      /\ \E i \in 1..Len(last'.calls) : last'.calls[i].cycle = last.ready_cycle)
       => DramCoordinates(last'.calls[FirstCallOf(last'.calls, last.ready_cycle)].req.addr)
            # DramCoordinates(last.req.addr)]_vars

\* C29: all requests held in one row bucket map to the same full row
\* coordinate (channel, rank, bank_group, bank, row); two addresses that
\* differ in any of the five fields are never in the same bucket.
C29_BucketSharesRowCoordinate ==
  \A b \in Buckets(ready_groups) :
    \A i, j \in 1..Len(b.row.prefetch_requests) :
      RowCoordinate(b.row.prefetch_requests[i].addr)
        = RowCoordinate(b.row.prefetch_requests[j].addr)

\* C30: the confidence term of a bucket's score is clamped to [0, 1]; for
\* any member confidences, values above max_confidence included, the stored
\* score never exceeds density_weight + confidence_weight.
C30_ScoreWithinWeights ==
  \A b \in Buckets(ready_groups) :
    ~RatLess(RatAdd(DENSITY_WEIGHT, CONFIDENCE_WEIGHT), b.row.priority_score)

\* C31: after every public operation each queued row bucket's stored score
\* equals density_weight * min(n / row_buffer_size, 1) + confidence_weight *
\* (mean member confidence / max_confidence) of its current n members, also
\* right after a duplicate was coalesced with a raised confidence; and a tick
\* that neither issues nor prunes a bucket leaves its score as it was.
C31_ScoreOfCurrentMembers ==
  [][/\ \A b \in Buckets(ready_groups') :
          LET reqs == b.row.prefetch_requests
              n == Len(reqs)
          IN /\ n > 0
             /\ b.row.priority_score
                  = RatAdd(RatMul(DENSITY_WEIGHT,
                                  IF n >= ROW_BUFFER_SIZE THEN Rat(1, 1)
                                  ELSE Rat(n, ROW_BUFFER_SIZE)),
                           RatMul(CONFIDENCE_WEIGHT,
                                  Rat(SumSeq(Confidences(reqs)), n * MAX_CONFIDENCE)))
     /\ last'.op = "tick"
          => \A b \in Buckets(ready_groups') :
               /\ b \in Buckets(ready_groups)]_vars

\* A request of confidence 3 was stored, a block-equal one of confidence 10
\* was coalesced into it, and the bucket's score is that of confidence 10.
C31_Witness ==
  /\ last.op = "add_request" /\ ~last.ret
  /\ m_stats.DUPLICATES_DETECTED = 1 /\ m_stats.REQUESTS_ADDED = 1
  /\ last.req = DramRowOpenRequest(1, 10, 1)
  /\ \E b \in Buckets(ready_groups) :
       /\ b.row.prefetch_requests = <<DramRowOpenRequest(0, 10, 1)>>
       /\ b.row.priority_score = Rat(163, 640)

\* C32: once no further add_request is made and the host keeps calling tick
\* with strictly increasing now, the queue becomes empty whatever the sink
\* answers and whatever the budget is: a queue that holds requests is
\* eventually empty.
C32_QueueDrains == (size > 0) ~> (size = 0)

\* The sink refused a request, later ticks came, and a tick past the
\* request's window pruned it and left the queue empty.
C32_Witness ==
  /\ last.op = "tick" /\ last.pruned > 0 /\ last.size_before = last.pruned
  /\ size = 0
  /\ m_stats.ISSUE_FAILURES > 0 /\ m_stats.ISSUED_SUCCESS = 0
  /\ m_stats.PRUNED_EXPIRED = m_stats.REQUESTS_ADDED

\* C33: after every public operation the queue holds no empty ready group
\* and no empty row bucket; a group is erased in the tick in which its last
\* bucket is issued, also when that issue exhausts the budget.
C33_NoEmptyGroupOrBucket ==
  \A t \in DOMAIN ready_groups :
    /\ DOMAIN ready_groups[t] # {}
    /\ \A c \in DOMAIN ready_groups[t] : Len(ready_groups[t][c].prefetch_requests) > 0

\* A tick of budget 1 issued the only bucket of the only group: the issue
\* exhausted the budget and the group is gone.
C33_Witness ==
  /\ last.op = "tick" /\ last.max_issue = 1 /\ last.pruned = 0
  /\ last.size_before = 1
  /\ Len(last.calls) = 1 /\ last.calls[1].ok
  /\ DOMAIN ready_groups = {}

\* The three counters an add_request call can raise.
AddCounters == {"REQUESTS_ADDED", "DUPLICATES_DETECTED", "DROPPED_FULL_QUEUE"}

\* C34: every add_request call raises exactly one of REQUESTS_ADDED,
\* DUPLICATES_DETECTED and DROPPED_FULL_QUEUE by 1 and returns true exactly
\* when it raised REQUESTS_ADDED; tick changes none of the three.
C34_OneCounterPerAdd ==
  [][/\ last'.op = "add_request"
          => /\ \E n \in AddCounters :
                  /\ m_stats'[n] = m_stats[n] + 1
                  /\ \A o \in AddCounters \ {n} : m_stats'[o] = m_stats[o]
             /\ last'.ret <=> (m_stats'.REQUESTS_ADDED = m_stats.REQUESTS_ADDED + 1)
     /\ last'.op = "tick"
          => \A n \in AddCounters : m_stats'[n] = m_stats[n]]_vars

\* Three calls since construction: one accepted, one coalesced, one dropped.
C34_Witness ==
  /\ last.op = "add_request" /\ ~last.ret
  /\ m_stats.REQUESTS_ADDED = 1
  /\ m_stats.DUPLICATES_DETECTED = 1
  /\ m_stats.DROPPED_FULL_QUEUE = 1
  /\ size = 1

\* Whether a request block-equal to req is queued under another ready cycle
\* than t, and none under t.
QueuedElsewhereOnly(groups, t, req) ==
  /\ \E u \in DOMAIN groups \ {t} : HoldsBlockEqual(BucketOf(groups, u, req), req)
  /\ ~HoldsBlockEqual(BucketOf(groups, t, req), req)

\* What C35 says of the call: accepted as a new request in a second slot.
AcceptedAsNew ==
  /\ last'.ret
  /\ total_prefetch_count(ready_groups') = size + 1
  /\ m_stats'.REQUESTS_ADDED = m_stats.REQUESTS_ADDED + 1
  /\ m_stats'.DUPLICATES_DETECTED = m_stats.DUPLICATES_DETECTED
  /\ \A u \in DOMAIN ready_groups \ {last'.ready_cycle} : ready_groups'[u] = ready_groups[u]

\* C35 as stated: add_request of a block that is already queued, but with a
\* different ready cycle, is accepted as a new request and occupies a second
\* slot (size() + 1, REQUESTS_ADDED + 1, DUPLICATES_DETECTED unchanged).
C35_SecondCopyAccepted ==
  [][(/\ last'.op = "add_request"
      /\ QueuedElsewhereOnly(ready_groups, last'.ready_cycle, last'.req))
       => AcceptedAsNew]_vars

\* C35 amended: the same, when the queue has a free slot.
C35_SecondCopyAcceptedWithRoom ==
  [][(/\ last'.op = "add_request"
      /\ size < capacity
      /\ QueuedElsewhereOnly(ready_groups, last'.ready_cycle, last'.req))
       => AcceptedAsNew]_vars

\* Both copies of one block, queued under two ready cycles, were passed to
\* try_issue in one tick, and both were accepted.
C35_Witness ==
  /\ last.op = "tick" /\ Len(last.calls) = 2
  /\ BlockEqual(last.calls[1].req, last.calls[2].req)
  /\ last.calls[1].cycle < last.calls[2].cycle
  /\ last.calls[1].ok /\ last.calls[2].ok
  /\ last.size_before = 2 /\ size = 0

----------------------------------------------------------------------------
(* DramRequestScheduler, the sibling scheduler of scheduler.h *)

DRAM_ROW_SIZE == 128
BANK_CYCLE_DELAY == 10000
SLACK_CYCLES == 50
MAXIMUM_CONFIDENCE_LEVEL == 1

\* The counters a run of the sibling scheduler may count up to.
MaxSiblingCount == 4

\* to_RowIdentifier: the bank an address maps to.
to_RowIdentifier(addr) ==
  [channel   |-> Slice(addr, "channel"),
   rank      |-> Slice(addr, "rank"),
   bankGroup |-> get_bankgroup(addr),
   bank      |-> Slice(addr, "bank")]

\* PrefetchRequest, with the confidence level its users read back.
PrefetchRequest(address, confidenceLevel, readyCycle) ==
  [address |-> address, confidenceLevel |-> confidenceLevel, readyCycle |-> readyCycle]

\* PrefetchRequest::isReady
isReady(request, currentCycle) == currentCycle >= request.readyCycle

\* PrefetchRequest::isExpired: past the ready cycle by more than the slack.
isExpired(request, currentCycle) == currentCycle > request.readyCycle + SLACK_CYCLES

\* PrefetchRequest::getConfidenceLevel
getConfidenceLevel(request) == request.confidenceLevel

\* DramRow::isFull
isFull(requests_) == Len(requests_) >= DRAM_ROW_SIZE

\* DramRow::addRequest: the requests afterwards and the value returned.
addRequest(requests_, request) ==
  IF isFull(requests_) THEN [requests |-> requests_, added |-> FALSE]
  ELSE IF \E i \in 1..Len(requests_) : requests_[i].address = request.address
  THEN LET it == CHOOSE i \in 1..Len(requests_) :
                   /\ requests_[i].address = request.address
                   /\ \A j \in 1..(i - 1) : requests_[j].address # request.address
       IN IF getConfidenceLevel(request) > getConfidenceLevel(requests_[it])
          THEN [requests |-> [requests_ EXCEPT ![it] = request], added |-> TRUE]
          ELSE [requests |-> requests_, added |-> FALSE]
  ELSE [requests |-> Append(requests_, request), added |-> TRUE]

\* DramRow::getReadyRequests
getReadyRequests(requests_, currentCycle) ==
  LET Ready(r) == isReady(r, currentCycle) IN SelectSeq(requests_, Ready)

\* DramRow::getReadyRequestCount
getReadyRequestCount(requests_, currentCycle) == Len(getReadyRequests(requests_, currentCycle))

\* DramRow::calculateScore
calculateScore(requests_, currentCycle) ==
  LET readyRequests == getReadyRequests(requests_, currentCycle)
      totalConfidence ==
        SumSeq([i \in 1..Len(readyRequests) |-> getConfidenceLevel(readyRequests[i])])
  IN IF readyRequests = <<>> THEN Rat(0, 1)
     ELSE RatMul(Rat(totalConfidence, Len(readyRequests)),
                 Rat(Len(readyRequests), DRAM_ROW_SIZE))

\* DramRow::pruneExpiredRequests: the requests that stay.
pruneExpiredRequests(requests_, currentCycle) ==
  LET Stays(r) == ~isExpired(r, currentCycle) IN SelectSeq(requests_, Stays)

\* DramRow::clearReadyRequests: the requests that stay.
clearReadyRequests(requests_, currentCycle) ==
  LET Stays(r) == ~isReady(r, currentCycle) IN SelectSeq(requests_, Stays)

\* DramRow::getHighestConfidenceRequest: the index of the first ready
\* request of the highest confidence, 0 if none is ready.
getHighestConfidenceRequest(requests_, currentCycle) ==
  LET ready == {i \in 1..Len(requests_) : isReady(requests_[i], currentCycle)}
  IN IF ready = {} THEN 0
     ELSE CHOOSE i \in ready :
            /\ \A j \in ready : getConfidenceLevel(requests_[j]) <= getConfidenceLevel(requests_[i])
            /\ \A j \in ready : j < i
                 => getConfidenceLevel(requests_[j]) < getConfidenceLevel(requests_[i])

\* DramRequestScheduler::isBankBusy, by the scheduler's own tracking
\* (enable_dram_controller_access is false).
isBankBusy(busy, rowId) == \E i \in 1..Len(busy) : busy[i].rowId = rowId

\* DramRequestScheduler::selectBestRow: the index of the first row of the
\* highest score among those with a ready request and a free bank, 0 if none.
selectBestRow(rows, busy, currentCycle) ==
  LET eligible == {i \in 1..Len(rows) :
                     /\ getReadyRequestCount(rows[i].requests_, currentCycle) # 0
                     /\ ~isBankBusy(busy, rows[i].rowIdentifier_)}
      score(i) == calculateScore(rows[i].requests_, currentCycle)
  IN IF eligible = {} THEN 0
     ELSE CHOOSE i \in eligible :
            /\ \A j \in eligible : ~RatLess(score(i), score(j))
            /\ \A j \in eligible : j < i => RatLess(score(j), score(i))

\* The loop over the slots in processCycle: t holds the rows, the busy
\* banks, the counters and the try_issue calls made so far.
RECURSIVE SlotLoop(_, _, _, _, _)
SlotLoop(t, slot, number_of_slots, currentCycle, answers) ==
  LET best == selectBestRow(t.rows, t.busy, currentCycle)
  IN IF slot >= number_of_slots \/ best = 0 THEN t
     ELSE LET request == t.rows[best].requests_[
                           getHighestConfidenceRequest(t.rows[best].requests_, currentCycle)]
              call == [req |-> request, cycle |-> currentCycle, ok |-> answers[slot + 1]]
          IN IF call.ok
             THEN SlotLoop(
                    [rows |-> [t.rows EXCEPT ![best].requests_ =
                                 clearReadyRequests(@, currentCycle)],
                     busy |-> Append(t.busy, [rowId |-> t.rows[best].rowIdentifier_,
                                              readyCycle |-> currentCycle + BANK_CYCLE_DELAY]),
                     stats |-> [t.stats EXCEPT !.ISSUED_SUCCESS = @ + 1],
                     calls |-> Append(t.calls, call)],
                    slot + 1, number_of_slots, currentCycle, answers)
             ELSE SlotLoop(
                    [t EXCEPT !.stats.ISSUE_FAILURES = @ + 1, !.calls = Append(@, call)],
                    slot + 1, number_of_slots, currentCycle, answers)

ZeroSchedulerStats ==
  [REQUESTS_ADDED |-> 0, TOTAL_DELAY_CYCLES |-> 0, DROPPED_FULL |-> 0,
   PRUNED_EXPIRED |-> 0, ISSUED_SUCCESS |-> 0, ISSUE_FAILURES |-> 0]

\* The number of requests in all rows.
RowsSize(rows) == SumSeq([i \in 1..Len(rows) |-> Len(rows[i].requests_)])

\* DramRequestScheduler::processCycle
processCycle(currentCycle, number_of_slots, answers) ==
  LET pruned == [i \in 1..Len(dramRows_) |->
                   [dramRows_[i] EXCEPT !.requests_ = pruneExpiredRequests(@, currentCycle)]]
      StillBusy(b) == ~(b.readyCycle <= currentCycle)
      HasRequests(row) == ~(Len(row.requests_) = 0)
  IN \E t \in {SlotLoop([rows |-> pruned,
                         busy |-> SelectSeq(busyBanks_, StillBusy),
                         stats |-> [scheduler_stats EXCEPT !.PRUNED_EXPIRED =
                                      @ + RowsSize(dramRows_) - RowsSize(pruned)],
                         calls |-> <<>>],
                        0, number_of_slots, currentCycle, answers)} :
       /\ SumOver(t.stats, DOMAIN ZeroSchedulerStats) <= MaxSiblingCount
       /\ dramRows_' = SelectSeq(t.rows, HasRequests)
       /\ busyBanks_' = t.busy
       /\ scheduler_stats' = t.stats
       /\ clock' = currentCycle
       /\ last' = Observed("processCycle", NoRequest, 0, number_of_slots, RowsSize(dramRows_),
                            FALSE, t.calls, RowsSize(dramRows_) - RowsSize(pruned))
       /\ UNCHANGED <<max_queue_size, time_slack, ready_groups, m_stats, low_confidence_buffer, berti_counters, buckets>>

\* DramRequestScheduler::findRow: the index of the row, 0 if there is none.
findRow(rows, rowId) ==
  IF \E i \in 1..Len(rows) : rows[i].rowIdentifier_ = rowId
  THEN CHOOSE i \in 1..Len(rows) :
         /\ rows[i].rowIdentifier_ = rowId
         /\ \A j \in 1..(i - 1) : rows[j].rowIdentifier_ # rowId
  ELSE 0

\* DramRequestScheduler::addPrefetchRequest
addPrefetchRequest(address, confidenceLevel, issueTime, currentCycle) ==
  LET request == PrefetchRequest(address, confidenceLevel, issueTime)
      rowId == to_RowIdentifier(address)
      delayCycles == IF issueTime > currentCycle THEN issueTime - currentCycle ELSE 0
      rowIt == findRow(dramRows_, rowId)
      r == addRequest(dramRows_[rowIt].requests_, request)
      counted == [scheduler_stats EXCEPT !.REQUESTS_ADDED = @ + 1,
                                         !.TOTAL_DELAY_CYCLES = @ + delayCycles]
  IN /\ IF rowIt # 0
        THEN /\ dramRows_' = [dramRows_ EXCEPT ![rowIt].requests_ = r.requests]
             /\ scheduler_stats' = IF r.added THEN counted
                                   ELSE [scheduler_stats EXCEPT !.DROPPED_FULL = @ + 1]
             /\ last' = Observed("addPrefetchRequest", NoRequest, issueTime, 0,
                                  RowsSize(dramRows_), r.added, NoCalls, 0)
        ELSE /\ dramRows_' = Append(dramRows_, [rowIdentifier_ |-> rowId, requests_ |-> <<request>>])
             /\ scheduler_stats' = counted
             /\ last' = Observed("addPrefetchRequest", NoRequest, issueTime, 0,
                                  RowsSize(dramRows_), TRUE, NoCalls, 0)
     /\ SumOver(scheduler_stats', DOMAIN ZeroSchedulerStats) <= MaxSiblingCount
     /\ clock' = currentCycle
     /\ UNCHANGED <<max_queue_size, time_slack, ready_groups, m_stats, busyBanks_, low_confidence_buffer, berti_counters,
                    buckets>>

\* The addresses the prefetcher submits: two columns of one bank, and a
\* second bank.
SiblingAddrs == {0, 512, 128}

InitSibling ==
  /\ dramRows_ = <<>>
  /\ busyBanks_ = <<>>
  /\ scheduler_stats = ZeroSchedulerStats
  /\ clock = 0
  /\ last = Plain("new", 0)
  /\ max_queue_size = 0 /\ time_slack = 0 /\ ready_groups = <<>> /\ m_stats = ZeroStats
  /\ low_confidence_buffer = <<>> /\ berti_counters = <<>> /\ buckets = <<>>

AddPrefetchRequest ==
  \E address \in SiblingAddrs, confidenceLevel \in 0..MAXIMUM_CONFIDENCE_LEVEL,
     issueTime \in 0..MaxNow, currentCycle \in clock..MaxNow :
    addPrefetchRequest(address, confidenceLevel, issueTime, currentCycle)

ProcessCycle ==
  \E currentCycle \in clock..MaxNow, number_of_slots \in 0..MaxIssue :
    \E answers \in [1..number_of_slots -> BOOLEAN] :
      processCycle(currentCycle, number_of_slots, answers)

NextSibling == AddPrefetchRequest \/ ProcessCycle

SpecSibling == InitSibling /\ [][NextSibling]_vars

\* C36: in DramRequestScheduler::processCycle a request refused by try_issue
\* gets one chance per call: it is not offered to the sink again in a later
\* slot of the same call, so one refused request raises ISSUE_FAILURES by 1
\* per call.
C36_RefusedOncePerCall ==
  [][last'.op = "processCycle"
       => /\ \A i, j \in 1..Len(last'.calls) :
               (i < j /\ ~last'.calls[i].ok) => last'.calls[j].req # last'.calls[i].req
          /\ scheduler_stats'.ISSUE_FAILURES - scheduler_stats.ISSUE_FAILURES
               <= Cardinality({last'.calls[i].req : i \in 1..Len(last'.calls)})]_vars

----------------------------------------------------------------------------
(* Berti's delayed low-confidence buffer, berti_tri.cc *)

\* The constants of the buffer, at sizes a model can explore: the capacity,
\* the cycles an entry may be late, the range of the delay and the priority
\* lost per cycle of waiting.
LOW_CONF_BUFFER_SIZE == 2
LOW_CONF_LATE_SLACK == 0
LOW_CONF_MIN_DELAY == 0
LOW_CONF_MAX_DELAY == 1
LOW_CONF_PENALTY_PER_CYCLE == 1

\* struct delayed_prefetch, as add_to_low_confidence_buffer initialises it.
delayed_prefetch(addr, metadata, ready_cycle, confidence, creation_cycle) ==
  [addr |-> addr, metadata |-> metadata, ready_cycle |-> ready_cycle,
   confidence |-> confidence, creation_cycle |-> creation_cycle]

\* Berti::calculate_safe_delay: safe_delay is read before it is written, so
\* the result is any value the clamp to [MIN, MAX] lets through.
calculate_safe_delay == LOW_CONF_MIN_DELAY..LOW_CONF_MAX_DELAY

\* The priority of an entry in add_to_low_confidence_buffer.
Priority(pf, current_cycle) ==
  pf.confidence - (IF pf.ready_cycle > current_cycle
                   THEN (pf.ready_cycle - current_cycle) * LOW_CONF_PENALTY_PER_CYCLE
                   ELSE 0)

\* std::min_element by priority: the index of the first entry of the
\* lowest priority.
LowestPriority(buffer, current_cycle) ==
  CHOOSE i \in 1..Len(buffer) :
    /\ \A j \in 1..Len(buffer) :
         ~(Priority(buffer[j], current_cycle) < Priority(buffer[i], current_cycle))
    /\ \A j \in 1..(i - 1) :
         Priority(buffer[i], current_cycle) < Priority(buffer[j], current_cycle)

\* The index of the first entry of the block of addr, 0 if there is none.
FindBlock(buffer, addr) ==
  IF \E i \in 1..Len(buffer) : block_number(buffer[i].addr) = block_number(addr)
  THEN CHOOSE i \in 1..Len(buffer) :
         /\ block_number(buffer[i].addr) = block_number(addr)
         /\ \A j \in 1..(i - 1) : block_number(buffer[j].addr) # block_number(addr)
  ELSE 0

\* add_to_low_confidence_buffer with a capacity test that lets one more in.
add_to_low_confidence_buffer_OneMore(buffer, addr, metadata, current_cycle, confidence, delay) ==
  LET new_pf == delayed_prefetch(addr, metadata, current_cycle + delay, confidence, current_cycle)
      duplicate == FindBlock(buffer, addr)
      lowest_priority == LowestPriority(buffer, current_cycle)
  IN IF duplicate # 0
     THEN IF confidence > buffer[duplicate].confidence
          THEN [buffer EXCEPT ![duplicate].confidence = confidence]
          ELSE buffer
     ELSE IF Len(buffer) > LOW_CONF_BUFFER_SIZE
     THEN IF Priority(new_pf, current_cycle) > Priority(buffer[lowest_priority], current_cycle)
          THEN [buffer EXCEPT ![lowest_priority] = new_pf]
          ELSE buffer
     ELSE Append(buffer, new_pf)

\* Berti::add_to_low_confidence_buffer: the buffer afterwards.
add_to_low_confidence_buffer(buffer, addr, metadata, current_cycle, confidence, delay) ==
  LET new_pf == delayed_prefetch(addr, metadata, current_cycle + delay, confidence, current_cycle)
      duplicate == FindBlock(buffer, addr)
      lowest_priority == LowestPriority(buffer, current_cycle)
  IN IF duplicate # 0
     THEN IF confidence > buffer[duplicate].confidence
          THEN [buffer EXCEPT ![duplicate].confidence = confidence]
          ELSE buffer
     ELSE IF Len(buffer) >= LOW_CONF_BUFFER_SIZE
     THEN IF Priority(new_pf, current_cycle) > Priority(buffer[lowest_priority], current_cycle)
          THEN [buffer EXCEPT ![lowest_priority] = new_pf]
          ELSE buffer
     ELSE Append(buffer, new_pf)

\* The entries issue_delayed_prefetches offers to the LLC, last index first.
RECURSIVE ReadyReversed(_, _)
ReadyReversed(buffer, current_cycle) ==
  IF buffer = <<>> THEN <<>>
  ELSE LET n == Len(buffer)
       IN (IF buffer[n].ready_cycle <= current_cycle THEN <<n>> ELSE <<>>)
            \o ReadyReversed(SubSeq(buffer, 1, n - 1), current_cycle)

ZeroBertiCounters == [late_removed |-> 0, throttled_prefetches |-> 0, dram_prefetch_issued |-> 0]

\* Berti::issue_delayed_prefetches: the buffer, the counters and the
\* prefetch_line calls afterwards. answers[k] is what the LLC returns to the
\* k-th call.
issue_delayed_prefetches(buffer, counters, current_cycle, llc_static, bandwidth_available, answers) ==
  LET InTime(pf) == ~(current_cycle > pf.ready_cycle + LOW_CONF_LATE_SLACK)
      kept == SelectSeq(buffer, InTime)
      late_count == Len(buffer) - Len(kept)
      to_issue == ReadyReversed(kept, current_cycle)
      calls == [k \in 1..Len(to_issue) |->
                  [req |-> kept[to_issue[k]], cycle |-> current_cycle, ok |-> answers[k]]]
      issued == Cardinality({k \in 1..Len(to_issue) : answers[k]})
      NotReady(pf) == ~(pf.ready_cycle <= current_cycle)
  IN IF ~llc_static
     THEN [buffer |-> buffer, counters |-> counters, calls |-> <<>>, late |-> 0]
     ELSE IF ~bandwidth_available
     THEN [buffer |-> kept,
           counters |-> [counters EXCEPT !.late_removed = @ + late_count,
                                         !.throttled_prefetches = @ + 1],
           calls |-> <<>>, late |-> late_count]
     ELSE [buffer |-> SelectSeq(kept, NotReady),
           counters |-> [counters EXCEPT !.late_removed = @ + late_count,
                                         !.dram_prefetch_issued = @ + issued],
           calls |-> calls, late |-> late_count]

\* The addresses Berti buffers: two of one block and two other blocks.
BertiAddrs == {0, 1, 64, 128}

InitBerti ==
  /\ low_confidence_buffer = <<>>
  /\ berti_counters = ZeroBertiCounters
  /\ clock = 0
  /\ last = Plain("new", 0)
  /\ max_queue_size = 0 /\ time_slack = 0 /\ ready_groups = <<>> /\ m_stats = ZeroStats
  /\ dramRows_ = <<>> /\ busyBanks_ = <<>> /\ scheduler_stats = <<>> /\ buckets = <<>>

\* The call of add_to_low_confidence_buffer in prefetcher_cache_operate.
AddToLowConfidenceBuffer ==
  \E addr \in BertiAddrs, confidence \in 1..2,
     current_cycle \in clock..(MaxNow + LOW_CONF_LATE_SLACK), delay \in calculate_safe_delay :
    /\ low_confidence_buffer' =
         add_to_low_confidence_buffer(low_confidence_buffer, addr, 0, current_cycle,
                                      confidence, delay)
    /\ clock' = current_cycle
    /\ last' = Observed("add_to_low_confidence_buffer",
                         delayed_prefetch(addr, 0, current_cycle + delay, confidence, current_cycle),
                         current_cycle + delay, 0, Len(low_confidence_buffer), FALSE, NoCalls, 0)
    /\ UNCHANGED <<max_queue_size, time_slack, ready_groups, m_stats, dramRows_, busyBanks_, scheduler_stats, berti_counters,
                   buckets>>

\* The call of issue_delayed_prefetches in prefetcher_cycle_operate; the LLC
\* exists by the time a prefetcher operates.
IssueDelayedPrefetches ==
  \E current_cycle \in clock..(MaxNow + LOW_CONF_LATE_SLACK), bandwidth_available \in BOOLEAN :
    \E answers \in [1..(IF bandwidth_available
                          THEN Len(ReadyReversed(low_confidence_buffer, current_cycle))
                          ELSE 0) -> BOOLEAN] :
      \E r \in {issue_delayed_prefetches(low_confidence_buffer, berti_counters, current_cycle,
                                          TRUE, bandwidth_available, answers)} :
        /\ SumOver(r.counters, DOMAIN ZeroBertiCounters) <= MaxCount
        /\ low_confidence_buffer' = r.buffer
        /\ berti_counters' = r.counters
        /\ clock' = current_cycle
        /\ last' = Observed("issue_delayed_prefetches", NoRequest, 0, 0,
                             Len(low_confidence_buffer), bandwidth_available, r.calls, r.late)
        /\ UNCHANGED <<max_queue_size, time_slack, ready_groups, m_stats, dramRows_, busyBanks_, scheduler_stats, buckets>>

NextBerti == AddToLowConfidenceBuffer \/ IssueDelayedPrefetches

SpecBerti == InitBerti /\ [][NextBerti]_vars

\* C37: in Berti::issue_delayed_prefetches a ready entry whose issue the LLC
\* refuses (prefetch_line returns false) is preserved in
\* low_confidence_buffer, to be offered again on a later cycle until it
\* expires past ready_cycle + LOW_CONF_LATE_SLACK.
C37_RefusedEntryPreserved ==
  [][last'.op = "issue_delayed_prefetches"
       => \A k \in 1..Len(last'.calls) :
            ~last'.calls[k].ok
              => \E i \in 1..Len(low_confidence_buffer') :
                   low_confidence_buffer'[i] = last'.calls[k].req]_vars

\* C38: low_confidence_buffer never holds more than LOW_CONF_BUFFER_SIZE
\* entries: an add to a full buffer either replaces the entry of the lowest
\* priority or is discarded, and an add for a block already buffered adds no
\* entry.
C38_BufferBounded ==
  /\ [](Len(low_confidence_buffer) <= LOW_CONF_BUFFER_SIZE)
  /\ [][last'.op = "add_to_low_confidence_buffer"
          => LET buffer == low_confidence_buffer
                 now == clock'
                 buffered == \E i \in 1..Len(buffer) :
                               block_number(buffer[i].addr) = block_number(last'.req.addr)
             IN /\ buffered => Len(low_confidence_buffer') = Len(buffer)
                /\ (~buffered /\ Len(buffer) = LOW_CONF_BUFFER_SIZE)
                     => \/ low_confidence_buffer' = buffer
                        \/ \E i \in 1..Len(buffer) :
                             /\ \A j \in 1..Len(buffer) :
                                  Priority(buffer[i], now) <= Priority(buffer[j], now)
                             /\ low_confidence_buffer' = [buffer EXCEPT ![i] = last'.req]]_vars

\* A full buffer has just taken a new block in place of its entry of the
\* lowest priority.
C38_Witness ==
  /\ last.op = "add_to_low_confidence_buffer"
  /\ last.size_before = LOW_CONF_BUFFER_SIZE
  /\ Len(low_confidence_buffer) = LOW_CONF_BUFFER_SIZE
  /\ \E i \in 1..Len(low_confidence_buffer) :
       /\ low_confidence_buffer[i] = last.req
       /\ last.req.creation_cycle = clock
       /\ \A j \in 1..Len(low_confidence_buffer) :
            j # i => low_confidence_buffer[j].creation_cycle < clock

----------------------------------------------------------------------------
(* PowerOfTwoHistogram, scheduler_histogram.h *)

\* The number of power-of-two buckets, at a size a model can explore.
HISTOGRAM_BUCKETS == 3

\* The largest value of the model's integers stands for UINT64_MAX.
UINT64_MAX == 2147483647

\* PowerOfTwoHistogram::PowerOfTwoHistogram: the buckets it builds.
PowerOfTwoHistogram ==
  [i \in 0..HISTOGRAM_BUCKETS |->
     IF i = 0 THEN [minValue |-> 0, maxValue |-> 0, rowCount |-> 0, totalValue |-> 0]
     ELSE [minValue |-> 2 ^ (i - 1),
           maxValue |-> IF i = HISTOGRAM_BUCKETS THEN UINT64_MAX ELSE 2 ^ i - 1,
           rowCount |-> 0, totalValue |-> 0]]

\* The loop of getBucketIndex: how often temp can be shifted right by one
\* before it is zero.
RECURSIVE HighestBit(_)
HighestBit(temp) == IF temp \div 2 = 0 THEN 0 ELSE 1 + HighestBit(temp \div 2)

\* getBucketIndex that takes the highest bit itself as the index.
getBucketIndex_HighestBit(value) ==
  IF value = 0 THEN 0
  ELSE LET bucketIndex == HighestBit(value)
       IN IF bucketIndex > HISTOGRAM_BUCKETS THEN HISTOGRAM_BUCKETS ELSE bucketIndex

\* PowerOfTwoHistogram::getBucketIndex
getBucketIndex(value) ==
  IF value = 0 THEN 0
  ELSE LET bucketIndex == HighestBit(value) + 1
       IN IF bucketIndex > HISTOGRAM_BUCKETS THEN HISTOGRAM_BUCKETS ELSE bucketIndex

\* PowerOfTwoHistogram::getTotalRows
getTotalRows(b) == SumOver([i \in DOMAIN b |-> b[i].rowCount], DOMAIN b)

\* PowerOfTwoHistogram::addValue
addValue(value) ==
  LET bucketIndex == getBucketIndex(value)
  IN /\ buckets' = [buckets EXCEPT ![bucketIndex].rowCount = @ + 1,
                                    ![bucketIndex].totalValue = @ + value]
     /\ last' = Observed("addValue", [value |-> value], 0, 0, getTotalRows(buckets), FALSE,
                          NoCalls, 0)
     /\ UNCHANGED <<max_queue_size, time_slack, ready_groups, m_stats, clock, dramRows_, busyBanks_, scheduler_stats,
                    low_confidence_buffer, berti_counters>>

InitHistogram ==
  /\ buckets = PowerOfTwoHistogram
  /\ clock = 0
  /\ last = Plain("new", 0)
  /\ max_queue_size = 0 /\ time_slack = 0 /\ ready_groups = <<>> /\ m_stats = ZeroStats
  /\ dramRows_ = <<>> /\ busyBanks_ = <<>> /\ scheduler_stats = <<>>
  /\ low_confidence_buffer = <<>> /\ berti_counters = <<>>

AddValue ==
  \E value \in 0..(2 ^ HISTOGRAM_BUCKETS + 1) :
    /\ getTotalRows(buckets) < MaxCount
    /\ addValue(value)

NextHistogram == AddValue

SpecHistogram == InitHistogram /\ [][NextHistogram]_vars

\* C39: addValue(v) counts v in bucket 0 when v = 0 and otherwise in bucket
\* i, 1 <= i <= HISTOGRAM_BUCKETS, with 2^(i-1) <= v <= 2^i - 1, the last
\* bucket taking every v >= 2^(HISTOGRAM_BUCKETS-1); the bucket counted is
\* the only one whose [minValue, maxValue] contains v.
C39_CountedInItsBucket ==
  [][last'.op = "addValue"
       => LET v == last'.req.value
          IN \E i \in 0..HISTOGRAM_BUCKETS :
               /\ buckets' = [buckets EXCEPT ![i].rowCount = @ + 1, ![i].totalValue = @ + v]
               /\ (i = 0) <=> (v = 0)
               /\ i >= 1 => 2 ^ (i - 1) <= v
               /\ (i >= 1 /\ i < HISTOGRAM_BUCKETS) => v <= 2 ^ i - 1
               /\ v >= 2 ^ (HISTOGRAM_BUCKETS - 1) => i = HISTOGRAM_BUCKETS
               /\ \A j \in 0..HISTOGRAM_BUCKETS :
                    (buckets[j].minValue <= v /\ v <= buckets[j].maxValue) <=> (j = i)]_vars

\* A zero, a value of the middle of a bucket's range and a value past
\* 2^HISTOGRAM_BUCKETS have been recorded, the last one just now.
C39_Witness ==
  /\ last.op = "addValue"
  /\ last.req.value > 2 ^ HISTOGRAM_BUCKETS
  /\ buckets[HISTOGRAM_BUCKETS].rowCount = 1
  /\ buckets[HISTOGRAM_BUCKETS].totalValue = last.req.value
  /\ buckets[0].rowCount = 1
  /\ buckets[2].rowCount = 1 /\ buckets[2].totalValue = 3

====
